---- MODULE Spec2Model ----
(***************************************************************************)
(* Filament resource manager and frame coordinator of Open3D.              *)
(*   FilamentResourceManager.cpp : handle containers, dependency graph,     *)
(*                                 pending image uploads                    *)
(*   FilamentRenderer.cpp        : scene registry, buffer renderers,        *)
(*                                 BeginFrame / Draw / EndFrame             *)
(***************************************************************************)
EXTENDS Integers, Sequences, FiniteSets, TLC

VARIABLES
    next,            \* REHandle<kind>::Next() counters, one per kind
    objn,            \* number of engine objects built so far, per kind
    containers,      \* materials_, material_instances_, textures_, ... : kind -> (handle -> object)
    dependencies,    \* dependencies_ : handle -> set of handles
    pending_images,  \* pending_images : 32-bit key -> retained image
    img_id,          \* the static img_id of RetainImageForLoading
    flight,          \* transfer ids handed to the engine whose callback has not fired
    dcount,          \* engine.destroy calls per engine object
    modifier,        \* the instance handle materials_modifier_ is bound to (kBad when unbound)
    fatal,           \* the process ended in a fatal condition
    returned,        \* the handles the operations have returned to their callers
    issued,          \* how often REHandle<kind>::Next() has issued each handle
    loader,          \* the render thread's position inside LoadTextureFromImage
    freeing,         \* the engine thread's position inside FreeRetainedImage
    scenes_,         \* scenes_ : the scene handles of the regular registry
    sceneNext,       \* SceneHandle::Next() counter
    gui_scene_,      \* the scene held by gui_scene_ (0 when null)
    buffer_renderers_, \* buffer_renderers_ : raw identities of registered buffer renderers
    brNext,          \* number of buffer renderers created so far
    brPending,       \* pending_ flag of each buffer renderer
    frame_started_,  \* frame_started_
    frame,           \* the last frame operation, the engine calls it made in order, and
                     \* what the engine answered to the last beginFrame
    swap_chain_,     \* swap_chain_ : the swap chain the renderer points to
    swapchains       \* the swap chains the engine has created: native window, destroy calls

rmVars == <<next, objn, containers, dependencies, pending_images, img_id,
            flight, dcount, modifier, fatal, returned, issued, loader, freeing>>
swVars == <<swap_chain_, swapchains>>
frVars == <<scenes_, sceneNext, gui_scene_, buffer_renderers_, brNext,
            brPending, frame_started_, frame, swap_chain_, swapchains>>
vars == <<next, objn, containers, dependencies, pending_images, img_id,
          flight, dcount, modifier, fatal, returned, issued, loader, freeing,
          scenes_, sceneNext, gui_scene_, buffer_renderers_, brNext,
          brPending, frame_started_, frame, swap_chain_, swapchains>>

----------------------------------------------------------------------------
(* Bounds of the model *)

\* engine objects built after construction
MaxNew == 2
\* texture maps a mesh material descriptor carries with pixel data
MaxMaps == 1
\* scenes created
MaxScenes == 3
\* buffer renderers created
MaxBufferRenderers == 2
\* swap chains created
MaxSwapChains == 3
\* side of a filled texture
MaxDimension == 2
\* colour components are multiples of 1 / ColorDen
ColorDen == 2

----------------------------------------------------------------------------
(* Handles and engine objects *)

Kinds == {"Material", "MaterialInstance", "Texture", "VertexBuffer",
          "IndexBuffer", "Skybox", "IndirectLight"}

\* handle types the resource manager has no container for
OtherTypes == {"Scene"}

kBadId == 0

Handle(kind, id) == [type |-> kind, id |-> id]

kBad(kind) == Handle(kind, kBadId)

IsValid(h) == h.id # kBadId

Null == [kind |-> "None", n |-> 0]

Object(kind, n) == [kind |-> kind, n |-> n]

kDefaultLit == Handle("Material", 1)
kDefaultUnlit == Handle("Material", 2)
kDefaultNormalShader == Handle("Material", 3)
kDefaultDepthShader == Handle("Material", 4)
kDepthMaterial == Handle("MaterialInstance", 1)
kNormalsMaterial == Handle("MaterialInstance", 2)
kColorMapMaterial == Handle("MaterialInstance", 3)
kDefaultTexture == Handle("Texture", 1)
kDefaultColorMap == Handle("Texture", 2)
kDefaultNormalMap == Handle("Texture", 3)

kDefaultResources ==
    {kDefaultLit, kDefaultUnlit, kDefaultNormalShader, kDefaultDepthShader,
     kDepthMaterial, kNormalsMaterial,
     kDefaultTexture, kDefaultColorMap, kDefaultNormalMap}

\* every handle constant the header declares as a default
DefaultHandles == kDefaultResources \cup {kColorMapMaterial}

\* the handles the static initialisers of the default handle constants obtain
StaticIssued ==
    <<kDefaultLit, kDefaultUnlit, kDefaultNormalShader, kDefaultDepthShader,
      kDepthMaterial, kNormalsMaterial, kColorMapMaterial,
      kDefaultTexture, kDefaultColorMap, kDefaultNormalMap>>

\* counters after the static initialisers of the default handle constants
StaticNext ==
    [k \in Kinds |-> CASE k = "Material" -> 5
                       [] k = "MaterialInstance" -> 4
                       [] k = "Texture" -> 4
                       [] OTHER -> 1]

\* A transfer id is a std::intptr_t; it is written hi * 2^16 + lo so that
\* values around 2^32 can be told apart.
Half == 65536

TransferId(hi, lo) == [hi |-> hi, lo |-> lo]

\* ++img_id
IdNext(id) ==
    IF id.lo + 1 = Half THEN TransferId(id.hi + 1, 0)
    ELSE TransferId(id.hi, id.lo + 1)

----------------------------------------------------------------------------
(* Finite maps *)

Put(f, k, v) == [x \in (DOMAIN f) \cup {k} |-> IF x = k THEN v ELSE f[x]]

Drop(f, k) == [x \in (DOMAIN f) \ {k} |-> f[x]]

EmptyMap == [x \in {} |-> 0]

----------------------------------------------------------------------------
(* The resource manager's state as a value, threaded through the operations.
   ret, obj, tid, cb and log are the results and effects of the running call:
   the handle it returns, the engine object or transfer id an inner call
   returns, the code passed to the request's error callback (NoCallback when
   it was not invoked) and the diagnostics written. *)

NoCallback == "none"

Cur ==
    [next |-> next, objn |-> objn, c |-> containers, deps |-> dependencies,
     pend |-> pending_images, img_id |-> img_id, flight |-> flight,
     dcount |-> dcount, modifier |-> modifier, fatal |-> fatal,
     issued |-> issued,
     ret |-> kBad("None"), obj |-> Null, tid |-> TransferId(0, 0),
     cb |-> NoCallback, log |-> {}]

Log(s, msg) == [s EXCEPT !.log = @ \cup {msg}]

\* utility::LogError at the sites the specification calls fatal
FatalErrors == {"Unsupported image bytes per channel",
                "Unsupported image number of channels"}

LogError(s, msg) ==
    IF msg \in FatalErrors
    THEN [Log(s, msg) EXCEPT !.fatal = TRUE]
    ELSE Log(s, msg)

ErrorCallback(s, code) == [s EXCEPT !.cb = code]

----------------------------------------------------------------------------
(* Engine objects and their shared ownership *)

\* sequencing: the state v, once computed, handed to the statements F that follow
Then(v, F(_)) == CHOOSE r \in {F(x) : x \in {v}} : TRUE

\* a builder's build(engine) or createInstance() that succeeds
NewObject(s, kind) ==
    LET o == Object(kind, s.objn[kind] + 1)
    IN [s EXCEPT !.objn[kind] = @ + 1, !.dcount = Put(@, o, 0), !.obj = o]

EngineDestroy(s, o) == [s EXCEPT !.dcount[o] = @ + 1]

Owners(s, o) ==
    {<<k, h>> \in UNION {{k} \X DOMAIN s.c[k] : k \in Kinds} : s.c[k][h] = o}

\* a faulty deleter: the engine is never asked to destroy the object
ReleaseNever(s, o) == s

\* the deleter MakeShared installs runs when the last owning reference goes
Release(s, o) ==
    IF o # Null /\ Owners(s, o) = {} THEN EngineDestroy(s, o) ELSE s

\* container[h] = MakeShared(o, engine)
Assign(s, kind, h, o) ==
    LET old == IF h \in DOMAIN s.c[kind] THEN s.c[kind][h] ELSE Null
    IN Then([s EXCEPT !.c[kind] = Put(@, h, o)], LAMBDA s1 : Release(s1, old))

\* container.erase(found)
Erase(s, kind, h) ==
    LET old == s.c[kind][h]
    IN Then([s EXCEPT !.c[kind] = Drop(@, h)], LAMBDA s1 : Release(s1, old))

\* Next() hands out h: one more issue of h on record
Issue(count, h) == Put(count, h, IF h \in DOMAIN count THEN count[h] + 1 ELSE 1)

\* a faulty RegisterResource: the handle counter is read but not advanced
RegisterResourceReuses(s, kind, o) ==
    IF o = Null
    THEN [LogError(s, "Trying to register empty resource!")
            EXCEPT !.ret = kBad(kind)]
    ELSE LET new_handle == Handle(kind, s.next[kind])
         IN Then([s EXCEPT !.issued = Issue(@, new_handle)], LAMBDA s1 :
                [Assign(s1, kind, new_handle, o) EXCEPT !.ret = new_handle])

RegisterResource(s, kind, o) ==
    IF o = Null
    THEN [LogError(s, "Trying to register empty resource!")
            EXCEPT !.ret = kBad(kind)]
    ELSE LET new_handle == Handle(kind, s.next[kind])
         IN Then([s EXCEPT !.next[kind] = @ + 1,
                           !.issued = Issue(@, new_handle)], LAMBDA s1 :
                [Assign(s1, kind, new_handle, o) EXCEPT !.ret = new_handle])

\* the weak_ptr FindResource returns: the object it refers to, Null when empty
FindResource(s, kind, id) ==
    IF id \in DOMAIN s.c[kind]
    THEN [s EXCEPT !.obj = s.c[kind][id]]
    ELSE [Log(s, "Resource not found.") EXCEPT !.obj = Null]

\* a faulty DestroyResource: the entry found is not erased
DestroyResourceKeeps(s, kind, id) ==
    IF id \notin DOMAIN s.c[kind]
    THEN LogError(s, "Trying to destroy nonexistent resource!")
    ELSE s

DestroyResource(s, kind, id) ==
    IF id \notin DOMAIN s.c[kind]
    THEN LogError(s, "Trying to destroy nonexistent resource!")
    ELSE Erase(s, kind, id)

----------------------------------------------------------------------------
(* Images retained for loading *)

\* pending_images is keyed by std::uint32_t: the conversion keeps the low 32 bits
Key(id) == [hi |-> id.hi % Half, lo |-> id.lo]

\* a faulty RetainImageForLoading: img_id is not advanced
RetainImageForLoadingSameId(s, img) ==
    LET id == s.img_id
    IN [s EXCEPT !.pend = Put(@, Key(id), img), !.tid = id]

RetainImageForLoading(s, img) ==
    LET id == s.img_id
    IN [s EXCEPT !.pend = Put(@, Key(id), img),
                 !.img_id = IdNext(@),
                 !.tid = id]

\* a faulty FreeRetainedImage: the entry found is not erased
FreeRetainedImageKeeps(s, id) ==
    IF Key(id) \in DOMAIN s.pend
    THEN s
    ELSE Log(s, "Trying to release non existent image shared pointer")

\* a faulty FreeRetainedImage: erase(found) without the test against end()
FreeRetainedImageUnchecked(s, id) ==
    IF Key(id) \in DOMAIN s.pend
    THEN [s EXCEPT !.pend = Drop(@, Key(id))]
    ELSE [s EXCEPT !.fatal = TRUE]

FreeRetainedImage(s, id) ==
    IF Key(id) \in DOMAIN s.pend
    THEN [s EXCEPT !.pend = Drop(@, Key(id))]
    ELSE Log(s, "Trying to release non existent image shared pointer")

Image(data, ch, bpc) == [data |-> data, ch |-> ch, bpc |-> bpc]

HasData(img) == img.data

\* the TextureSettings GetSettingsFromImage fills in: the members keep their
\* initialisers where no case of a switch applies
TextureSettings(img) ==
    [image_format |-> CASE img.ch = 1 -> "R" [] img.ch = 4 -> "RGBA" [] OTHER -> "RGB",
     format |-> CASE img.ch = 1 -> "R8" [] img.ch = 4 -> "RGBA8" [] OTHER -> "RGB8",
     image_type |-> "UBYTE"]

GetSettingsFromImage(s, img) ==
    Then(IF img.ch \in {1, 3, 4} THEN s
         ELSE LogError(s, "Unsupported image number of channels"),
         LAMBDA s1 :
            IF s1.fatal \/ img.bpc = 1 THEN s1
            ELSE LogError(s1, "Unsupported image bytes per channel"))

\* texture->setImage(engine_, 0, std::move(pb)): the engine holds the buffer
\* until it calls FreeRetainedImage with the transfer id
SetImage(s, id) == [s EXCEPT !.flight = @ \cup {id}]

LoadTextureFromImage(s, img) ==
    Then(RetainImageForLoading(s, img), LAMBDA s1 :
    Then(GetSettingsFromImage(s1, img), LAMBDA s2 :
        IF s2.fatal THEN [s2 EXCEPT !.obj = Null]
        ELSE SetImage(NewObject(s2, "Texture"), s1.tid)))

\* A colour component is a multiple of 1 / ColorDen between 0 and 1, given by
\* its numerator.

\* static_cast<uint8_t>(component * 255.f): the fraction is cut off
ToByte(component) == ((component * 255) \div ColorDen) % 256

\* image->Prepare(width, height, channels, bytes): a zeroed buffer of that size
Prepare(width, height, num_of_channels, bytes_per_channel) ==
    [width |-> width, height |-> height, ch |-> num_of_channels,
     bpc |-> bytes_per_channel,
     data |-> [i \in 1 .. width * height * num_of_channels * bytes_per_channel |-> 0]]

\* for (i = from; i < to; ++i) data[i] = c, data seen as an array of RGB
RECURSIVE FillRGB(_, _, _, _)
FillRGB(data, from, to, c) ==
    IF from >= to THEN data
    ELSE FillRGB([data EXCEPT ![3 * from + 1] = c[1],
                              ![3 * from + 2] = c[2],
                              ![3 * from + 3] = c[3]],
                 from + 1, to, c)

\* a faulty fill: the loop runs to dimension, not to dimension * dimension
FilledImageOneRow(color, dimension) ==
    LET image == Prepare(dimension, dimension, 3, 1)
        c == <<ToByte(color[1]), ToByte(color[2]), ToByte(color[3])>>
    IN [image EXCEPT !.data = FillRGB(@, 0, dimension, c)]

\* the image LoadFilledTexture prepares and fills
FilledImage(color, dimension) ==
    LET image == Prepare(dimension, dimension, 3, 1)
        c == <<ToByte(color[1]), ToByte(color[2]), ToByte(color[3])>>
    IN [image EXCEPT !.data = FillRGB(@, 0, dimension * dimension, c)]

\* what the upload path reads of an image: whether it has pixels, its
\* channels and their depth
Header(image) == Image(Len(image.data) > 0, image.ch, image.bpc)

LoadFilledTexture(s, color, dimension) ==
    LoadTextureFromImage(s, Header(FilledImage(color, dimension)))

----------------------------------------------------------------------------
(* Resource load requests.  path is "" (empty), "missing" (FReadToBuffer
   fails) or "file"; data_size is the size of the inline data; payload says
   what the engine makes of the bytes: "good", "rejected" (the builder
   returns null), "abort" (the builder aborts) or "nosh" (a ktx bundle
   without spherical harmonics). *)

Request(path, size, payload) ==
    [path |-> path, data_size |-> size, payload |-> payload]

Errno == "errno"

\* Material::Builder().package(data, size).build(engine)
BuildMaterial(s, payload) ==
    CASE payload = "good" -> NewObject(s, "Material")
      [] payload = "abort" -> [s EXCEPT !.fatal = TRUE, !.obj = Null]
      [] OTHER -> [s EXCEPT !.obj = Null]

\* CreateMaterial(const void* material_data, size_t data_size)
CreateMaterialData(s, payload) ==
    Then(BuildMaterial(s, payload), LAMBDA s1 :
        IF s1.fatal THEN s1
        ELSE IF s1.obj # Null
             THEN RegisterResource(s1, "Material", s1.obj)
             ELSE [s1 EXCEPT !.ret = kBad("Material")])

\* a faulty CreateMaterial: the result of FReadToBuffer is not looked at
CreateMaterialReadUnchecked(s, request) ==
    Then([s EXCEPT !.ret = kBad("Material")], LAMBDA s0 :
        IF request.path # ""
        THEN CreateMaterialData(s0, request.payload)
        ELSE IF request.data_size > 0
             THEN CreateMaterialData(s0, request.payload)
             ELSE ErrorCallback(s0, "-1"))

CreateMaterial(s, request) ==
    Then([s EXCEPT !.ret = kBad("Material")], LAMBDA s0 :
        IF request.path # ""
        THEN IF request.path = "file"
             THEN CreateMaterialData(s0, request.payload)
             ELSE ErrorCallback(s0, Errno)
        ELSE IF request.data_size > 0
             THEN CreateMaterialData(s0, request.payload)
             ELSE ErrorCallback(s0, "-1"))

\* a faulty CreateMaterialInstance: the instance is made without the lookup
CreateMaterialInstanceUnchecked(s, id) ==
    Then(NewObject(s, "MaterialInstance"), LAMBDA s1 :
        RegisterResource(s1, "MaterialInstance", s1.obj))

CreateMaterialInstance(s, id) ==
    IF id \in DOMAIN s.c["Material"]
    THEN Then(NewObject(s, "MaterialInstance"), LAMBDA s1 :
            RegisterResource(s1, "MaterialInstance", s1.obj))
    ELSE [Log(s, "Material for creating instance not found")
            EXCEPT !.ret = kBad("MaterialInstance")]

\* a null std::shared_ptr<geometry::Image>
NullImage == [data |-> FALSE, ch |-> 0, bpc |-> 0]

\* LoadTextureFromImage(img) followed by RegisterResource<TextureHandle>
LoadAndRegister(s, img) ==
    Then(LoadTextureFromImage(s, img), LAMBDA s1 :
        IF s1.fatal THEN [s1 EXCEPT !.ret = kBad("Texture")]
        ELSE RegisterResource(s1, "Texture", s1.obj))

\* a faulty CreateTexture: the image is uploaded without the HasData test
CreateTextureUnchecked(s, img) ==
    IF img = NullImage
    THEN [s EXCEPT !.fatal = TRUE, !.ret = kBad("Texture")]
    ELSE LoadAndRegister(s, img)

\* CreateTexture(const std::shared_ptr<geometry::Image>&)
CreateTexture(s, img) ==
    IF img = NullImage
    THEN [s EXCEPT !.fatal = TRUE, !.ret = kBad("Texture")]
    ELSE IF HasData(img)
         THEN LoadAndRegister(s, img)
         ELSE [s EXCEPT !.ret = kBad("Texture")]

\* CreateTexture(const char* path): file is the image the path decodes to,
\* NullImage standing for a null path
CreateTexturePath(s, file) ==
    IF file = NullImage
    THEN Then(Log(s, "Empty path for texture loading provided"), LAMBDA s1 :
            CreateTexture(s1, NullImage))
    ELSE CreateTexture(s, file)

\* CreateTexture(const geometry::Image&)
CreateTextureCopy(s, image) ==
    IF HasData(image)
    THEN LoadAndRegister(s, image)
    ELSE [s EXCEPT !.ret = kBad("Texture")]

CreateTextureFilled(s, color, dimension) ==
    Then(LoadFilledTexture(s, color, dimension), LAMBDA s1 :
        IF s1.fatal THEN [s1 EXCEPT !.ret = kBad("Texture")]
        ELSE RegisterResource(s1, "Texture", s1.obj))

\* the maps TRY_ASSIGN_MAP is applied to, in order
MapOrder == <<"albedo", "normalMap", "ambientOcclusion", "metallic",
              "roughness">>

Maps == {MapOrder[i] : i \in DOMAIN MapOrder}

\* the optional image maps a mesh material descriptor can carry
DescriptorMaps ==
    Maps \cup {"reflectance", "clearCoat", "clearCoatRoughness", "anisotropy"}

\* descriptor.map is null
NoMap == NullImage

\* dependencies_[owner].insert(dep)
AddDependency(s, owner, dep) ==
    LET had == IF owner \in DOMAIN s.deps THEN s.deps[owner] ELSE {}
    IN [s EXCEPT !.deps = Put(@, owner, had \cup {dep})]

TRY_ASSIGN_MAP(s, handle, img) ==
    IF img # NoMap /\ HasData(img)
    THEN Then(CreateTexture(s, img), LAMBDA s1 :
            IF ~s1.fatal /\ IsValid(s1.ret)
            THEN AddDependency(s1, handle, s1.ret)
            ELSE s1)
    ELSE s

RECURSIVE AssignMaps(_, _, _, _)
AssignMaps(s, handle, descriptor, i) ==
    IF i > Len(MapOrder) \/ s.fatal THEN s
    ELSE Then(TRY_ASSIGN_MAP(s, handle, descriptor[MapOrder[i]]), LAMBDA s1 :
            AssignMaps(s1, handle, descriptor, i + 1))

CreateFromDescriptor(s, descriptor) ==
    IF kDefaultLit \notin DOMAIN s.c["Material"]
       \/ s.c["Material"][kDefaultLit] = Null
    THEN \* materials_[kDefaultLit] inserts an empty entry, then a null is dereferenced
         [s EXCEPT !.c["Material"] = Put(@, kDefaultLit, Null),
                   !.fatal = TRUE, !.ret = kBad("MaterialInstance")]
    ELSE Then(NewObject(s, "MaterialInstance"), LAMBDA s1 :
         Then(RegisterResource(s1, "MaterialInstance", s1.obj), LAMBDA s2 :
            [AssignMaps(s2, s2.ret, descriptor, 1) EXCEPT !.ret = s2.ret]))

\* image::ktx::createTexture(&engine_, ktx, false)
KtxCreateTexture(s) == NewObject(s, "Texture")

\* a faulty registration: the texture is registered but not recorded as a
\* dependency of the owner
RegisterWithTextureUnlinked(s, kind, owner, texture) ==
    Then(RegisterResource(s, kind, owner), LAMBDA s1 :
    Then(RegisterResource(s1, "Texture", texture), LAMBDA s2 :
        [s2 EXCEPT !.ret = s1.ret]))

\* handle = RegisterResource(owner); htexture = RegisterResource(texture);
\* dependencies_[handle].insert(htexture)
RegisterWithTexture(s, kind, owner, texture) ==
    Then(RegisterResource(s, kind, owner), LAMBDA s1 :
    Then(RegisterResource(s1, "Texture", texture), LAMBDA s2 :
        [AddDependency(s2, s1.ret, s2.ret) EXCEPT !.ret = s1.ret]))

\* a faulty CreateIndirectLight: the cubemap texture is kept when the bundle
\* has no spherical harmonics
CreateIndirectLightLeaks(s, request) ==
    Then([s EXCEPT !.ret = kBad("IndirectLight")], LAMBDA s0 :
        IF request.path # ""
        THEN IF request.path = "file"
             THEN Then(KtxCreateTexture(s0), LAMBDA s1 :
                    IF request.payload = "nosh"
                    THEN ErrorCallback(s1, "2")
                    ELSE IF request.payload = "good"
                         THEN Then(NewObject(s1, "IndirectLight"), LAMBDA s2 :
                                RegisterWithTexture(s2, "IndirectLight",
                                                    s2.obj, s1.obj))
                         ELSE EngineDestroy(ErrorCallback(s1, "3"), s1.obj))
             ELSE ErrorCallback(s0, Errno)
        ELSE ErrorCallback(s0, "-1"))

CreateIndirectLight(s, request) ==
    Then([s EXCEPT !.ret = kBad("IndirectLight")], LAMBDA s0 :
        IF request.path # ""
        THEN IF request.path = "file"
             THEN Then(KtxCreateTexture(s0), LAMBDA s1 :
                    IF request.payload = "nosh"
                    THEN ErrorCallback(EngineDestroy(s1, s1.obj), "2")
                    ELSE IF request.payload = "good"
                         THEN Then(NewObject(s1, "IndirectLight"), LAMBDA s2 :
                                RegisterWithTexture(s2, "IndirectLight",
                                                    s2.obj, s1.obj))
                         ELSE EngineDestroy(ErrorCallback(s1, "3"), s1.obj))
             ELSE ErrorCallback(s0, Errno)
        ELSE ErrorCallback(s0, "-1"))

CreateSkybox(s, request) ==
    Then([s EXCEPT !.ret = kBad("Skybox")], LAMBDA s0 :
        IF request.path # ""
        THEN IF request.path = "file"
             THEN Then(KtxCreateTexture(s0), LAMBDA s1 :
                    IF request.payload # "rejected"
                    THEN Then(NewObject(s1, "Skybox"), LAMBDA s2 :
                            RegisterWithTexture(s2, "Skybox", s2.obj, s1.obj))
                    ELSE EngineDestroy(ErrorCallback(s1, "3"), s1.obj))
             ELSE ErrorCallback(s0, Errno)
        ELSE ErrorCallback(s0, "-1"))

\* vertex_buffer is the caller's engine object, or null
AddVertexBuffer(s, isNull) ==
    IF isNull THEN RegisterResource(s, "VertexBuffer", Null)
    ELSE Then(NewObject(s, "VertexBuffer"), LAMBDA s1 :
            RegisterResource(s1, "VertexBuffer", s1.obj))

CreateIndexBuffer(s, built) ==
    IF built
    THEN Then(NewObject(s, "IndexBuffer"), LAMBDA s1 :
            RegisterResource(s1, "IndexBuffer", s1.obj))
    ELSE [s EXCEPT !.ret = kBad("IndexBuffer")]

\* GetMaterial, GetMaterialInstance, GetTexture, GetIndirectLight, GetSkybox,
\* GetVertexBuffer, GetIndexBuffer: the container is the one of the handle's type
Get(s, id) == FindResource(s, id.type, id)

----------------------------------------------------------------------------
(* Destruction *)

RECURSIVE ReleaseAll(_, _)
ReleaseAll(s, objs) ==
    IF objs = {} THEN s
    ELSE LET o == CHOOSE x \in objs : TRUE
         IN Then(Release(s, o), LAMBDA s1 : ReleaseAll(s1, objs \ {o}))

\* container.clear()
Clear(s, kind) ==
    LET held == {s.c[kind][h] : h \in DOMAIN s.c[kind]}
    IN Then([s EXCEPT !.c[kind] = EmptyMap], LAMBDA s1 : ReleaseAll(s1, held))

\* clear() that spares the entries of kDefaultResources
ClearButDefaults(s, kind) ==
    LET spared == DOMAIN s.c[kind] \cap kDefaultResources
        held == {s.c[kind][h] : h \in DOMAIN s.c[kind] \ spared}
    IN Then([s EXCEPT !.c[kind] = [h \in spared |-> s.c[kind][h]]], LAMBDA s1 :
            ReleaseAll(s1, held))

\* a faulty DestroyAll: the default resources are exempt, as they are in Destroy
DestroyAllButDefaults(s) ==
    Then(ClearButDefaults(s, "MaterialInstance"), LAMBDA s1 :
    Then(ClearButDefaults(s1, "Material"), LAMBDA s2 :
    Then(ClearButDefaults(s2, "Texture"), LAMBDA s3 :
    Then(Clear(s3, "VertexBuffer"), LAMBDA s4 :
    Then(Clear(s4, "IndexBuffer"), LAMBDA s5 :
    Then(Clear(s5, "IndirectLight"), LAMBDA s6 :
        Clear(s6, "Skybox")))))))

DestroyAll(s) ==
    Then(Clear(s, "MaterialInstance"), LAMBDA s1 :
    Then(Clear(s1, "Material"), LAMBDA s2 :
    Then(Clear(s2, "Texture"), LAMBDA s3 :
    Then(Clear(s3, "VertexBuffer"), LAMBDA s4 :
    Then(Clear(s4, "IndexBuffer"), LAMBDA s5 :
    Then(Clear(s5, "IndirectLight"), LAMBDA s6 :
        Clear(s6, "Skybox")))))))

RECURSIVE Destroy(_, _), DestroyEach(_, _)

\* for (const auto& dependent : found->second) Destroy(dependent);
DestroyEach(s, dependents) ==
    IF dependents = {} THEN s
    ELSE LET d == CHOOSE x \in dependents : TRUE
         IN Then(Destroy(s, d), LAMBDA s1 : DestroyEach(s1, dependents \ {d}))

\* a faulty Destroy: the dependency record is left behind
DestroyKeepsRecord(s, id) ==
    IF id \in kDefaultResources
    THEN Log(s, "Trying to destroy default resource. Nothing will happen.")
    ELSE IF id.type \notin Kinds
         THEN Log(s, "Resource is not suited for destruction by ResourceManager")
         ELSE Then(DestroyResource(s, id.type, id), LAMBDA s1 :
                IF id \in DOMAIN s1.deps
                THEN DestroyEach(s1, s1.deps[id])
                ELSE s1)

\* a faulty Destroy: the dependents are destroyed, the resource itself is not
DestroyDependentsOnly(s, id) ==
    IF id \in kDefaultResources
    THEN Log(s, "Trying to destroy default resource. Nothing will happen.")
    ELSE IF id.type \notin Kinds
         THEN Log(s, "Resource is not suited for destruction by ResourceManager")
         ELSE IF id \in DOMAIN s.deps
              THEN DestroyEach(s, s.deps[id])
              ELSE DestroyResource(s, id.type, id)

Destroy(s, id) ==
    IF id \in kDefaultResources
    THEN Log(s, "Trying to destroy default resource. Nothing will happen.")
    ELSE IF id.type \notin Kinds
         THEN Log(s, "Resource is not suited for destruction by ResourceManager")
         ELSE Then(DestroyResource(s, id.type, id), LAMBDA s1 :
                IF id \in DOMAIN s1.deps
                THEN [DestroyEach(s1, s1.deps[id]) EXCEPT !.deps = Drop(@, id)]
                ELSE s1)

----------------------------------------------------------------------------
(* Construction *)

\* LoadMaterialFromFile: null when the file cannot be read
LoadMaterialFromFile(s, readable) ==
    IF readable THEN NewObject(s, "Material")
    ELSE [Log(s, "Failed to load default material") EXCEPT !.obj = Null]

\* A call through a null pointer is undefined: the process crashes (crash), or
\* the call does nothing and the statements after it run on the null pointer.

\* mat = LoadMaterialFromFile(path); mat->setDefaultParameter(...);
\* materials_[h] = MakeShared(mat, engine_)
LoadDefaultMaterial(s, h, readable, crash) ==
    IF s.fatal THEN s
    ELSE Then(LoadMaterialFromFile(s, readable), LAMBDA s1 :
            IF s1.obj = Null /\ crash THEN [s1 EXCEPT !.fatal = TRUE]
            ELSE Assign(s1, "Material", h, s1.obj))

\* hmat = CreateMaterial(ResourceLoadRequest(path)); mat = materials_[hmat];
\* material_instances_[h] = MakeShared(mat->createInstance(), engine_)
LoadDefaultInstance(s, h, readable, crash) ==
    IF s.fatal THEN s
    ELSE Then(CreateMaterial(s, Request(IF readable THEN "file" ELSE "missing",
                                        0, "good")),
              LAMBDA s1 :
                IF s1.ret \notin DOMAIN s1.c["Material"]
                THEN \* materials_[hmat] inserts an empty entry under hmat
                     Then([s1 EXCEPT !.c["Material"] = Put(@, s1.ret, Null)],
                          LAMBDA s2 :
                            IF crash THEN [s2 EXCEPT !.fatal = TRUE]
                            ELSE Assign(s2, "MaterialInstance", h, Null))
                ELSE Then(NewObject(s1, "MaterialInstance"), LAMBDA s2 :
                        Assign(s2, "MaterialInstance", h, s2.obj)))

\* texture = LoadTextureFromImage(img); textures_[h] = MakeShared(texture, engine_)
LoadDefaultTexture(s, h, img) ==
    IF s.fatal THEN s
    ELSE Then(LoadTextureFromImage(s, img), LAMBDA s1 :
            IF s1.fatal THEN s1 ELSE Assign(s1, "Texture", h, s1.obj))

\* the image io::CreateImageFromFile yields for a file that cannot be read
UnreadImage == Image(FALSE, 0, 0)

DefaultFiles == {"defaultTexture.png", "defaultGradient.png",
                 "defaultLit.filamat", "defaultUnlit.filamat",
                 "depth.filamat", "normals.filamat", "colorMap.filamat"}

\* io::CreateImageFromFile(resource_root + f), files being the readable ones
DefaultImage(files, f) ==
    IF f \in files THEN Image(TRUE, 3, 1) ELSE UnreadImage

\* a faulty LoadDefaults: the colour-map instance is not created
LoadDefaultsNoColorMap(s, files, crash) ==
    Then(LoadDefaultTexture(s, kDefaultTexture,
                            DefaultImage(files, "defaultTexture.png")), LAMBDA t1 :
    Then(LoadDefaultTexture(t1, kDefaultColorMap,
                            DefaultImage(files, "defaultGradient.png")), LAMBDA t2 :
    Then(LoadDefaultTexture(t2, kDefaultNormalMap, Image(TRUE, 3, 1)), LAMBDA t3 :
    Then(LoadDefaultMaterial(t3, kDefaultLit, "defaultLit.filamat" \in files, crash), LAMBDA m1 :
    Then(LoadDefaultMaterial(m1, kDefaultUnlit, "defaultUnlit.filamat" \in files, crash), LAMBDA m2 :
    Then(LoadDefaultMaterial(m2, kDefaultDepthShader, "depth.filamat" \in files, crash), LAMBDA m3 :
    Then(LoadDefaultInstance(m3, kDepthMaterial, "depth.filamat" \in files, crash), LAMBDA i1 :
    Then(LoadDefaultMaterial(i1, kDefaultNormalShader, "normals.filamat" \in files, crash), LAMBDA m4 :
        LoadDefaultInstance(m4, kNormalsMaterial, "normals.filamat" \in files, crash)))))))))

LoadDefaults(s, files, crash) ==
    Then(LoadDefaultTexture(s, kDefaultTexture,
                            DefaultImage(files, "defaultTexture.png")), LAMBDA t1 :
    Then(LoadDefaultTexture(t1, kDefaultColorMap,
                            DefaultImage(files, "defaultGradient.png")), LAMBDA t2 :
    Then(LoadDefaultTexture(t2, kDefaultNormalMap, Image(TRUE, 3, 1)), LAMBDA t3 :
    Then(LoadDefaultMaterial(t3, kDefaultLit, "defaultLit.filamat" \in files, crash), LAMBDA m1 :
    Then(LoadDefaultMaterial(m1, kDefaultUnlit, "defaultUnlit.filamat" \in files, crash), LAMBDA m2 :
    Then(LoadDefaultMaterial(m2, kDefaultDepthShader, "depth.filamat" \in files, crash), LAMBDA m3 :
    Then(LoadDefaultInstance(m3, kDepthMaterial, "depth.filamat" \in files, crash), LAMBDA i1 :
    Then(LoadDefaultMaterial(i1, kDefaultNormalShader, "normals.filamat" \in files, crash), LAMBDA m4 :
    Then(LoadDefaultInstance(m4, kNormalsMaterial, "normals.filamat" \in files, crash), LAMBDA i2 :
        LoadDefaultInstance(i2, kColorMapMaterial, "colorMap.filamat" \in files, crash))))))))))

\* the members of a manager before its constructor body runs
Unconstructed ==
    [next |-> StaticNext, objn |-> [k \in Kinds |-> 0],
     c |-> [k \in Kinds |-> EmptyMap], deps |-> EmptyMap,
     pend |-> EmptyMap, img_id |-> TransferId(0, 1), flight |-> {},
     dcount |-> EmptyMap, modifier |-> kBad("MaterialInstance"),
     fatal |-> FALSE,
     issued |-> [h \in {StaticIssued[i] : i \in DOMAIN StaticIssued} |->
                    Cardinality({i \in DOMAIN StaticIssued : StaticIssued[i] = h})],
     ret |-> kBad("None"), obj |-> Null, tid |-> TransferId(0, 0),
     cb |-> NoCallback, log |-> {}]

\* FilamentResourceManager::FilamentResourceManager with every default file present
Constructed == LoadDefaults(Unconstructed, DefaultFiles, TRUE)

----------------------------------------------------------------------------
(* FilamentRenderer's forwarding operations and the material modifier *)

\* FilamentMaterialModifier::Reset
ModifierReset(s) == [s EXCEPT !.modifier = kBad("MaterialInstance")]

\* FilamentMaterialModifier::Init(instance, handle): binds when the instance is live
ModifierInit(s, instance, handle) ==
    IF instance # Null THEN [s EXCEPT !.modifier = handle]
    ELSE Log(s, "Modifier initialised with an expired instance")

\* FilamentRenderer::ModifyMaterial(const MaterialHandle&)
ModifyMaterial(s, id) ==
    Then(CreateMaterialInstance(ModifierReset(s), id), LAMBDA s1 :
        IF IsValid(s1.ret)
        THEN Then(FindResource(s1, "MaterialInstance", s1.ret), LAMBDA s2 :
                [ModifierInit(s2, s2.obj, s1.ret) EXCEPT !.ret = s1.ret])
        ELSE Log(s1, "Failed to create material instance for material handle"))

\* a faulty ModifyMaterial(instance): the modifier is not reset first
ModifyMaterialInstanceNoReset(s, id) ==
    Then(FindResource(s, "MaterialInstance", id), LAMBDA s1 :
        IF s1.obj # Null
        THEN [ModifierInit(s1, s1.obj, id) EXCEPT !.ret = id]
        ELSE [Log(s1, "Failed to modify material instance: unknown instance handle")
                EXCEPT !.ret = kBad("MaterialInstance")])

\* FilamentRenderer::ModifyMaterial(const MaterialInstanceHandle&)
ModifyMaterialInstance(s, id) ==
    Then(FindResource(ModifierReset(s), "MaterialInstance", id), LAMBDA s1 :
        IF s1.obj # Null
        THEN [ModifierInit(s1, s1.obj, id) EXCEPT !.ret = id]
        ELSE [Log(s1, "Failed to modify material instance: unknown instance handle")
                EXCEPT !.ret = kBad("MaterialInstance")])

\* a faulty AddTexture: the path is handed on without the empty-path test
AddTextureUnchecked(s, request, file) ==
    CreateTexturePath(s, file)

\* FilamentRenderer::AddTexture(const ResourceLoadRequest&): file is the image
\* the path decodes to
AddTexture(s, request, file) ==
    IF request.path = ""
    THEN [ErrorCallback(s, "-1") EXCEPT !.ret = kBad("Texture")]
    ELSE CreateTexturePath(s, file)

AddIndirectLight(s, request) ==
    IF request.path = ""
    THEN [ErrorCallback(s, "-1") EXCEPT !.ret = kBad("IndirectLight")]
    ELSE CreateIndirectLight(s, request)

AddSkybox(s, request) ==
    IF request.path = ""
    THEN [ErrorCallback(s, "-1") EXCEPT !.ret = kBad("Skybox")]
    ELSE CreateSkybox(s, request)

----------------------------------------------------------------------------
(* The resource manager as a state machine *)

Built(s) ==
    s.objn["Material"] + s.objn["MaterialInstance"] + s.objn["Texture"]
    + s.objn["VertexBuffer"] + s.objn["IndexBuffer"] + s.objn["Skybox"]
    + s.objn["IndirectLight"]

\* engine objects LoadDefaults builds: 3 textures, 7 materials, 3 instances
DefaultObjects == 13

Within(s) == Built(s) <= DefaultObjects + MaxNew

NoHandle == kBad("None")

\* the render thread outside LoadTextureFromImage, the engine thread outside
\* FreeRetainedImage
Outside == [pc |-> "idle", id |-> TransferId(0, 0), img |-> NullImage]

\* the state s becomes the manager's, its handle the caller's
Store(s) ==
    /\ next' = s.next
    /\ objn' = s.objn
    /\ containers' = s.c
    /\ dependencies' = s.deps
    /\ pending_images' = s.pend
    /\ img_id' = s.img_id
    /\ flight' = s.flight
    /\ dcount' = s.dcount
    /\ modifier' = s.modifier
    /\ fatal' = s.fatal
    /\ issued' = s.issued
    /\ returned' = returned \cup (IF IsValid(s.ret) THEN {s.ret} ELSE {})
    /\ UNCHANGED frVars

\* the call ends, having run as one step
Apply(s) ==
    /\ Store(s)
    /\ UNCHANGED <<loader, freeing>>

RmInit ==
    \E s \in {Constructed} :
    /\ next = s.next
    /\ objn = s.objn
    /\ containers = s.c
    /\ dependencies = s.deps
    /\ pending_images = s.pend
    /\ img_id = s.img_id
    /\ flight = s.flight
    /\ dcount = s.dcount
    /\ modifier = s.modifier
    /\ fatal = s.fatal
    /\ returned = {}
    /\ issued = s.issued
    /\ loader = Outside
    /\ freeing = Outside

(* Inputs *)

\* the colour (1, 0, 0)
Red == <<ColorDen, 0, 0>>

\* colours a filled texture is asked for: red, one with a component of
\* 1 / ColorDen (as the (0.5, 0.5, 1) of the default normal map has), one more
FillColors == {Red, <<1, 1, ColorDen>>, <<0, ColorDen - 1, 1>>}

MaterialRequests ==
    {Request("", 0, "good"), Request("missing", 0, "good")}
    \cup {Request("file", 0, p) : p \in {"good", "rejected", "abort"}}
    \cup {Request("", 1, p) : p \in {"good", "rejected", "abort"}}

KtxRequests ==
    {Request("", 0, "good"), Request("missing", 0, "good")}
    \cup {Request("file", 0, p) : p \in {"good", "nosh", "rejected"}}

\* an image without pixels, two images with them, and one of two bytes a channel
Images ==
    {Image(FALSE, 3, 1), Image(TRUE, 3, 1), Image(TRUE, 4, 1), Image(TRUE, 3, 2)}

MapImages == {Image(FALSE, 3, 1), Image(TRUE, 3, 1), Image(TRUE, 3, 2)}

Descriptors ==
    {d \in [Maps -> MapImages \cup {NoMap}] :
        Cardinality({m \in Maps : d[m] # NoMap}) <= MaxMaps}

\* handles are opaque: a caller holds the ones an operation returned, the
\* public default constants and the invalid handle
HandlesOf(kind) ==
    {h \in returned \cup DefaultHandles : h.type = kind} \cup {kBad(kind)}

AllHandles ==
    UNION {HandlesOf(k) : k \in Kinds} \cup {Handle(k, 1) : k \in OtherTypes}

CallCreateMaterial ==
    /\ ~fatal
    /\ \E r \in MaterialRequests :
        \E s \in {CreateMaterial(Cur, r)} :
           Within(s)
           /\ Apply(s)

CallCreateMaterialInstance ==
    /\ ~fatal
    /\ \E h \in HandlesOf("Material") :
        \E s \in {CreateMaterialInstance(Cur, h)} :
           Within(s)
           /\ Apply(s)

CallCreateFromDescriptor ==
    /\ ~fatal
    /\ \E d \in Descriptors :
        \E s \in {CreateFromDescriptor(Cur, d)} :
           Within(s)
           /\ Apply(s)

CallAddTexture ==
    /\ ~fatal
    /\ \E r \in {Request("", 0, "good"), Request("file", 0, "good")},
       img \in Images :
        \E s \in {AddTexture(Cur, r, img)} :
           Within(s)
           /\ Apply(s)

CallCreateTexture ==
    /\ ~fatal
    /\ \E img \in Images \cup {NullImage} :
        \E s \in {CreateTexture(Cur, img)} :
           Within(s)
           /\ Apply(s)

CallCreateTextureCopy ==
    /\ ~fatal
    /\ \E img \in Images :
        \E s \in {CreateTextureCopy(Cur, img)} :
           Within(s)
           /\ Apply(s)

CallCreateTextureFilled ==
    /\ ~fatal
    /\ \E color \in FillColors, dimension \in {1, 2} :
        \E s \in {CreateTextureFilled(Cur, color, dimension)} :
           Within(s)
           /\ Apply(s)

CallCreateIndirectLight ==
    /\ ~fatal
    /\ \E r \in KtxRequests :
        \E s \in {CreateIndirectLight(Cur, r)} :
           Within(s)
           /\ Apply(s)

CallAddIndirectLight ==
    /\ ~fatal
    /\ \E r \in KtxRequests :
        \E s \in {AddIndirectLight(Cur, r)} :
           Within(s)
           /\ Apply(s)

CallCreateSkybox ==
    /\ ~fatal
    /\ \E r \in KtxRequests :
        \E s \in {CreateSkybox(Cur, r)} :
           Within(s)
           /\ Apply(s)

CallAddSkybox ==
    /\ ~fatal
    /\ \E r \in KtxRequests :
        \E s \in {AddSkybox(Cur, r)} :
           Within(s)
           /\ Apply(s)

CallAddVertexBuffer ==
    /\ ~fatal
    /\ \E isNull \in BOOLEAN :
        \E s \in {AddVertexBuffer(Cur, isNull)} :
           Within(s)
           /\ Apply(s)

CallCreateIndexBuffer ==
    /\ ~fatal
    /\ \E built \in BOOLEAN :
        \E s \in {CreateIndexBuffer(Cur, built)} :
           Within(s)
           /\ Apply(s)

CallGet ==
    /\ ~fatal
    /\ \E k \in Kinds : \E h \in HandlesOf(k) :
        \E s \in {Get(Cur, h)} :
           Apply(s)

CallDestroy ==
    /\ ~fatal
    /\ \E h \in AllHandles :
        \E s \in {Destroy(Cur, h)} :
           Apply(s)

CallDestroyAll ==
    /\ ~fatal
    /\ \E s \in {DestroyAll(Cur)} :
       Apply(s)

CallModifyMaterial ==
    /\ ~fatal
    /\ \E h \in HandlesOf("Material") :
        \E s \in {ModifyMaterial(Cur, h)} :
           Within(s)
           /\ Apply(s)

CallModifyMaterialInstance ==
    /\ ~fatal
    /\ \E h \in HandlesOf("MaterialInstance") :
        \E s \in {ModifyMaterialInstance(Cur, h)} :
           Apply(s)

\* the engine's completion callback for an upload it was handed
UploadCompleted ==
    /\ ~fatal
    /\ \E id \in flight :
        \E s \in {FreeRetainedImage([Cur EXCEPT !.flight = @ \ {id}], id)} :
           Apply(s)

(* LoadTextureFromImage and FreeRetainedImage statement by statement.  The
   engine calls FreeRetainedImage back on its own thread; pending_images is a
   plain std::unordered_map that no lock protects. *)

\* images of a supported format
LoadableImages == {Image(TRUE, 3, 1), Image(TRUE, 4, 1)}

\* CreateTexture reaches RetainImageForLoading: const auto id = img_id
RetainRead ==
    /\ ~fatal
    /\ loader.pc = "idle"
    /\ Built(Cur) < DefaultObjects + MaxNew
    /\ \E img \in LoadableImages :
          loader' = [pc |-> "retain", id |-> img_id, img |-> img]
    /\ UNCHANGED <<next, objn, containers, dependencies, pending_images,
                   img_id, flight, dcount, modifier, fatal, returned, issued,
                   freeing>>
    /\ UNCHANGED frVars

\* pending_images[img_id] = img begins: operator[] is inside the map
RetainInsertBegin ==
    /\ ~fatal
    /\ loader.pc = "retain"
    /\ loader' = [loader EXCEPT !.pc = "inserting"]
    /\ UNCHANGED <<next, objn, containers, dependencies, pending_images,
                   img_id, flight, dcount, modifier, fatal, returned, issued,
                   freeing>>
    /\ UNCHANGED frVars

\* pending_images[img_id] = img ends, no other thread having been inside the map
RetainInsertEnd ==
    /\ ~fatal
    /\ loader.pc = "inserting"
    /\ freeing.pc # "erasing"
    /\ pending_images' = Put(pending_images, Key(loader.id), loader.img)
    /\ loader' = [loader EXCEPT !.pc = "increment"]
    /\ UNCHANGED <<next, objn, containers, dependencies, img_id, flight,
                   dcount, modifier, fatal, returned, issued, freeing>>
    /\ UNCHANGED frVars

\* ++img_id; return id
RetainIncrement ==
    /\ ~fatal
    /\ loader.pc = "increment"
    /\ img_id' = IdNext(img_id)
    /\ loader' = [loader EXCEPT !.pc = "upload"]
    /\ UNCHANGED <<next, objn, containers, dependencies, pending_images,
                   flight, dcount, modifier, fatal, returned, issued, freeing>>
    /\ UNCHANGED frVars

\* the rest of LoadTextureFromImage, and the RegisterResource of its caller
LoadUpload ==
    /\ ~fatal
    /\ loader.pc = "upload"
    /\ \E s \in {Then(GetSettingsFromImage(Cur, loader.img), LAMBDA s1 :
                   IF s1.fatal THEN s1
                   ELSE Then(NewObject(s1, "Texture"), LAMBDA s2 :
                           RegisterResource(SetImage(s2, loader.id),
                                            "Texture", s2.obj)))} :
          Store(s)
    /\ loader' = Outside
    /\ UNCHANGED freeing

\* the engine calls FreeRetainedImage for an upload it was handed:
\* pending_images.find(id) is inside the map
FreeFind ==
    /\ ~fatal
    /\ freeing.pc = "idle"
    /\ \E id \in flight :
          /\ flight' = flight \ {id}
          /\ freeing' = [pc |-> "erasing", id |-> id, img |-> NullImage]
    /\ UNCHANGED <<next, objn, containers, dependencies, pending_images,
                   img_id, dcount, modifier, fatal, returned, issued, loader>>
    /\ UNCHANGED frVars

\* pending_images.erase(found), no other thread having been inside the map
FreeErase ==
    /\ ~fatal
    /\ freeing.pc = "erasing"
    /\ loader.pc # "inserting"
    /\ pending_images' = FreeRetainedImage(Cur, freeing.id).pend
    /\ freeing' = Outside
    /\ UNCHANGED <<next, objn, containers, dependencies, img_id, flight,
                   dcount, modifier, fatal, returned, issued, loader>>
    /\ UNCHANGED frVars

\* what the map may hold after two unsynchronised accesses to it: any part of
\* the entries either access found or wrote
RaceOutcomes ==
    LET all == Put(pending_images, Key(loader.id), loader.img)
    IN {[k \in K |-> all[k]] : K \in SUBSET DOMAIN all}

\* operator[] and find/erase run inside the map at the same time: a data race,
\* after which the map holds any of RaceOutcomes or the process has crashed
DataRace ==
    /\ ~fatal
    /\ loader.pc = "inserting"
    /\ freeing.pc = "erasing"
    /\ \/ \E m \in RaceOutcomes : pending_images' = m /\ fatal' = fatal
       \/ pending_images' = pending_images /\ fatal' = TRUE
    /\ loader' = [loader EXCEPT !.pc = "increment"]
    /\ freeing' = Outside
    /\ UNCHANGED <<next, objn, containers, dependencies, img_id, flight,
                   dcount, modifier, returned, issued>>
    /\ UNCHANGED frVars

----------------------------------------------------------------------------
(* The frame coordinator as a state machine *)

NoScene == 0

Call(name, on) == [call |-> name, on |-> on]

\* the orders in which a range-for may visit an unordered container
Orders(S) ==
    {q \in [1 .. Cardinality(S) -> S] :
        \A i, j \in 1 .. Cardinality(S) : q[i] = q[j] => i = j}

\* the native_drawable the renderer is constructed on
NativeDrawable == "native_drawable"

\* engine_.createSwapChain(native_window): a live swap chain on the window
SwapChain(window) == [window |-> window, destroyed |-> 0]

FrInit ==
    /\ scenes_ = {}
    /\ sceneNext = 1
    /\ gui_scene_ = NoScene
    /\ buffer_renderers_ = {}
    /\ brNext = 1
    /\ brPending = EmptyMap
    /\ frame_started_ = FALSE
    /\ frame = [begin |-> "never", op |-> "FilamentRenderer", arg |-> 0,
               calls |-> <<>>]
    /\ swap_chain_ = 1
    /\ swapchains = Put(EmptyMap, 1, SwapChain(NativeDrawable))

CreateScene ==
    /\ sceneNext <= MaxScenes
    /\ scenes_' = scenes_ \cup {sceneNext}
    /\ sceneNext' = sceneNext + 1
    /\ frame' = [begin |-> frame.begin, op |-> "CreateScene",
                 arg |-> sceneNext, calls |-> <<>>]
    /\ UNCHANGED <<gui_scene_, buffer_renderers_, brNext, brPending,
                   frame_started_>>
    /\ UNCHANGED <<rmVars, swVars>>

\* a faulty DestroyScene: the overlay is destroyed when its handle is given
DestroySceneOrOverlay ==
    \E id \in 0 .. sceneNext :
        /\ scenes_' = scenes_ \ {id}
        /\ gui_scene_' = IF id = gui_scene_ THEN NoScene ELSE gui_scene_
        /\ frame' = [begin |-> frame.begin, op |-> "DestroyScene",
                     arg |-> id, calls |-> <<>>]
        /\ UNCHANGED <<sceneNext, buffer_renderers_, brNext,
                       brPending, frame_started_>>
        /\ UNCHANGED <<rmVars, swVars>>

DestroyScene ==
    \E id \in 0 .. sceneNext :
        /\ scenes_' = scenes_ \ {id}
        /\ frame' = [begin |-> frame.begin, op |-> "DestroyScene",
                     arg |-> id, calls |-> <<>>]
        /\ UNCHANGED <<sceneNext, gui_scene_, buffer_renderers_, brNext,
                       brPending, frame_started_>>
        /\ UNCHANGED <<rmVars, swVars>>

\* FilamentRenderer::GetScene: the scene found under id, NoScene for nullptr
GetScene(registry, id) == IF id \in registry THEN id ELSE NoScene

\* a faulty ConvertToGuiScene: the result of the lookup is not tested
ConvertToGuiSceneUnchecked ==
    \E id \in 0 .. sceneNext :
        /\ gui_scene_' = GetScene(scenes_, id)
        /\ scenes_' = scenes_ \ {id}
        /\ frame' = [begin |-> frame.begin, op |-> "ConvertToGuiScene",
                     arg |-> id, calls |-> <<>>]
        /\ UNCHANGED <<sceneNext, buffer_renderers_, brNext, brPending,
                       frame_started_>>
        /\ UNCHANGED <<rmVars, swVars>>

\* a faulty ConvertToGuiScene: the scene stays in scenes_
ConvertToGuiSceneKeeps ==
    \E id \in 0 .. sceneNext :
        /\ IF id \in scenes_
           THEN gui_scene_' = id /\ scenes_' = scenes_
           ELSE UNCHANGED <<gui_scene_, scenes_>>
        /\ frame' = [begin |-> frame.begin, op |-> "ConvertToGuiScene",
                     arg |-> id, calls |-> <<>>]
        /\ UNCHANGED <<sceneNext, buffer_renderers_, brNext, brPending,
                       frame_started_>>
        /\ UNCHANGED <<rmVars, swVars>>

\* a faulty ConvertToGuiScene: the overlay it replaces goes back to scenes_
ConvertToGuiSceneSwaps ==
    \E id \in 0 .. sceneNext :
        /\ IF id \in scenes_
           THEN /\ gui_scene_' = id
                /\ scenes_' = (scenes_ \ {id}) \cup ({gui_scene_} \ {NoScene})
           ELSE UNCHANGED <<gui_scene_, scenes_>>
        /\ frame' = [begin |-> frame.begin, op |-> "ConvertToGuiScene",
                     arg |-> id, calls |-> <<>>]
        /\ UNCHANGED <<sceneNext, buffer_renderers_, brNext, brPending,
                       frame_started_>>
        /\ UNCHANGED <<rmVars, swVars>>

ConvertToGuiScene ==
    \E id \in 0 .. sceneNext :
        /\ IF id \in scenes_
           THEN gui_scene_' = id /\ scenes_' = scenes_ \ {id}
           ELSE UNCHANGED <<gui_scene_, scenes_>>
        /\ frame' = [begin |-> frame.begin, op |-> "ConvertToGuiScene",
                     arg |-> id, calls |-> <<>>]
        /\ UNCHANGED <<sceneNext, buffer_renderers_, brNext, brPending,
                       frame_started_>>
        /\ UNCHANGED <<rmVars, swVars>>

CreateBufferRenderer ==
    /\ brNext <= MaxBufferRenderers
    /\ buffer_renderers_' = buffer_renderers_ \cup {brNext}
    /\ brPending' = Put(brPending, brNext, FALSE)
    /\ brNext' = brNext + 1
    /\ frame' = [begin |-> frame.begin, op |-> "CreateBufferRenderer",
                 arg |-> brNext, calls |-> <<>>]
    /\ UNCHANGED <<scenes_, sceneNext, gui_scene_, frame_started_>>
    /\ UNCHANGED <<rmVars, swVars>>

\* the owner of a buffer renderer asks it for a frame
RequestFrame ==
    \E b \in DOMAIN brPending :
        /\ brPending' = [brPending EXCEPT ![b] = TRUE]
        /\ frame' = [begin |-> frame.begin, op |-> "RequestFrame",
                     arg |-> b, calls |-> <<>>]
        /\ UNCHANGED <<scenes_, sceneNext, gui_scene_, buffer_renderers_,
                       brNext, frame_started_>>
        /\ UNCHANGED <<rmVars, swVars>>

\* a faulty OnBufferRenderDestroyed: the renderer stays in buffer_renderers_
OnBufferRenderDestroyedKeeps ==
    \E b \in DOMAIN brPending :
        /\ brPending' = Drop(brPending, b)
        /\ frame' = [begin |-> frame.begin, op |-> "OnBufferRenderDestroyed",
                     arg |-> b, calls |-> <<>>]
        /\ UNCHANGED <<scenes_, sceneNext, gui_scene_, buffer_renderers_, brNext,
                       frame_started_>>
        /\ UNCHANGED <<rmVars, swVars>>

\* the buffer renderer's destructor notifies the renderer
OnBufferRenderDestroyed ==
    \E b \in DOMAIN brPending :
        /\ buffer_renderers_' = buffer_renderers_ \ {b}
        /\ brPending' = Drop(brPending, b)
        /\ frame' = [begin |-> frame.begin, op |-> "OnBufferRenderDestroyed",
                     arg |-> b, calls |-> <<>>]
        /\ UNCHANGED <<scenes_, sceneNext, gui_scene_, brNext, frame_started_>>
        /\ UNCHANGED <<rmVars, swVars>>

\* FilamentRenderToBuffer::Render: the request is served and pending_ cleared
Render(pending, b) == [pending EXCEPT ![b] = FALSE]

RECURSIVE RenderEach(_, _)
RenderEach(pending, todo) ==
    IF todo = <<>> THEN pending
    ELSE RenderEach(Render(pending, Head(todo)), Tail(todo))

\* the buffer renderers BeginFrame renders, in the order it visits them
Serviced(order) ==
    SelectSeq(order, LAMBDA b : brPending[b])

\* a faulty BeginFrame: the engine's beginFrame comes before the buffer renderers
BeginFrameEngineFirst(began) ==
    \E order \in Orders(buffer_renderers_) :
        LET todo == Serviced(order)
        IN /\ brPending' = RenderEach(brPending, todo)
           /\ frame_started_' = began
           /\ frame' = [begin |-> IF began THEN "begun" ELSE "refused",
                        op |-> "BeginFrame", arg |-> 0,
                        calls |-> <<Call("beginFrame", began)>>
                                  \o [i \in DOMAIN todo |-> Call("Render", todo[i])]]
           /\ UNCHANGED <<scenes_, sceneNext, gui_scene_, buffer_renderers_, brNext>>
        /\ UNCHANGED <<rmVars, swVars>>

BeginFrame(began) ==
    \E order \in Orders(buffer_renderers_) :
        LET todo == Serviced(order)
        IN /\ brPending' = RenderEach(brPending, todo)
           /\ frame_started_' = began
           /\ frame' = [begin |-> IF began THEN "begun" ELSE "refused",
                        op |-> "BeginFrame", arg |-> 0,
                        calls |-> [i \in DOMAIN todo |-> Call("Render", todo[i])]
                                  \o <<Call("beginFrame", began)>>]
           /\ UNCHANGED <<scenes_, sceneNext, gui_scene_, buffer_renderers_, brNext>>
        /\ UNCHANGED <<rmVars, swVars>>

\* a faulty Draw: frame_started_ is not consulted
DrawUnguarded ==
    \E order \in Orders(scenes_) :
        /\ frame' = [begin |-> frame.begin, op |-> "Draw", arg |-> 0,
                     calls |-> [i \in DOMAIN order |-> Call("Draw", order[i])]
                               \o (IF gui_scene_ # NoScene
                                   THEN <<Call("Draw", gui_scene_)>>
                                   ELSE <<>>)]
        /\ UNCHANGED <<scenes_, sceneNext, gui_scene_, buffer_renderers_,
                       brNext, brPending, frame_started_>>
        /\ UNCHANGED <<rmVars, swVars>>

\* a faulty Draw: the overlay is drawn first
DrawOverlayFirst ==
    \E order \in Orders(scenes_) :
        /\ frame' = [begin |-> frame.begin, op |-> "Draw", arg |-> 0,
                     calls |-> IF frame_started_
                               THEN (IF gui_scene_ # NoScene
                                     THEN <<Call("Draw", gui_scene_)>>
                                     ELSE <<>>)
                                    \o [i \in DOMAIN order |-> Call("Draw", order[i])]
                               ELSE <<>>]
        /\ UNCHANGED <<scenes_, sceneNext, gui_scene_, buffer_renderers_,
                       brNext, brPending, frame_started_>>
        /\ UNCHANGED <<rmVars, swVars>>

Draw ==
    \E order \in Orders(scenes_) :
        /\ frame' = [begin |-> frame.begin, op |-> "Draw", arg |-> 0,
                     calls |-> IF frame_started_
                               THEN [i \in DOMAIN order |-> Call("Draw", order[i])]
                                    \o (IF gui_scene_ # NoScene
                                        THEN <<Call("Draw", gui_scene_)>>
                                        ELSE <<>>)
                               ELSE <<>>]
        /\ UNCHANGED <<scenes_, sceneNext, gui_scene_, buffer_renderers_,
                       brNext, brPending, frame_started_>>
        /\ UNCHANGED <<rmVars, swVars>>

EndFrame ==
    /\ frame' = [begin |-> frame.begin, op |-> "EndFrame", arg |-> 0,
                 calls |-> IF frame_started_ THEN <<Call("endFrame", 0)>>
                           ELSE <<>>]
    /\ UNCHANGED <<scenes_, sceneNext, gui_scene_, buffer_renderers_,
                   brNext, brPending, frame_started_>>
    /\ UNCHANGED <<rmVars, swVars>>

\* resize_metal_layer, the stub an Apple build calls when the engine runs its
\* Metal backend: utility::LogError throws and the call does not return
ResizeMetalLayerThrows(metal) == metal

\* FilamentRenderer::UpdateSwapChain, metal saying that the build is Apple's and
\* the engine runs the Metal backend.  It is called on a live swap chain: one
\* that was destroyed and not replaced is not looked at again.
UpdateSwapChain(metal) ==
    LET native_win == swapchains[swap_chain_].window
        created == Cardinality(DOMAIN swapchains) + 1
        torn == [swapchains EXCEPT ![swap_chain_].destroyed = @ + 1]
    IN /\ swapchains[swap_chain_].destroyed = 0
       /\ created <= MaxSwapChains
       /\ IF ResizeMetalLayerThrows(metal)
          THEN /\ swapchains' = torn
               /\ swap_chain_' = swap_chain_
               /\ frame' = [begin |-> frame.begin, op |-> "UpdateSwapChain",
                            arg |-> swap_chain_,
                            calls |-> <<Call("destroy", swap_chain_)>>]
          ELSE /\ swapchains' = Put(torn, created, SwapChain(native_win))
               /\ swap_chain_' = created
               /\ frame' = [begin |-> frame.begin, op |-> "UpdateSwapChain",
                            arg |-> swap_chain_,
                            calls |-> <<Call("destroy", swap_chain_),
                                        Call("createSwapChain", created)>>]
       /\ UNCHANGED <<scenes_, sceneNext, gui_scene_, buffer_renderers_,
                      brNext, brPending, frame_started_>>
       /\ UNCHANGED rmVars

FrNext ==
    \/ CreateScene
    \/ DestroyScene
    \/ ConvertToGuiScene
    \/ CreateBufferRenderer
    \/ RequestFrame
    \/ OnBufferRenderDestroyed
    \/ \E began \in BOOLEAN : BeginFrame(began)
    \/ Draw
    \/ EndFrame

----------------------------------------------------------------------------
(* Specifications *)

Init == RmInit /\ FrInit

\* The manager's variables fall into parts that the operations keep apart: the
\* containers with their dependency records, the registry of retained images
\* (which only the upload operations and the completion callback touch) and
\* the binding of the material modifier.  Each part has its specification,
\* over the same variables and the same operations.

Next ==
    \/ CallCreateMaterial
    \/ CallCreateMaterialInstance
    \/ CallCreateFromDescriptor
    \/ CallAddTexture
    \/ CallCreateTexture
    \/ CallCreateTextureCopy
    \/ CallCreateTextureFilled
    \/ CallCreateIndirectLight
    \/ CallAddIndirectLight
    \/ CallCreateSkybox
    \/ CallAddSkybox
    \/ CallAddVertexBuffer
    \/ CallCreateIndexBuffer
    \/ CallGet
    \/ CallDestroy
    \/ CallDestroyAll

\* the containers, the handles and the dependency records
Spec == Init /\ [][Next]_vars

UploadNext ==
    \/ CallCreateFromDescriptor
    \/ CallAddTexture
    \/ CallCreateTexture
    \/ CallCreateTextureCopy
    \/ CallCreateTextureFilled
    \/ UploadCompleted
    \/ CallDestroy
    \/ CallDestroyAll

\* the images retained for uploads in flight
SpecUpload == Init /\ [][UploadNext]_vars

ModifierNext ==
    \/ CallCreateMaterial
    \/ CallCreateMaterialInstance
    \/ CallModifyMaterial
    \/ CallModifyMaterialInstance
    \/ CallDestroy
    \/ CallDestroyAll

\* the material modifier and the instances it is bound to
SpecModifier == Init /\ [][ModifierNext]_vars

\* img_id right after construction, and after 2^32 - 3 more uploads
Counters == {Constructed.img_id, TransferId(Half, 1)}

\* the manager after construction and after any number of texture uploads
\* that were completed and destroyed again: only img_id tells them apart from
\* the state after construction, the uploads of the default textures being
\* still in flight
RetainInit ==
    /\ \E s \in {Constructed} :
        /\ next = s.next
        /\ objn = s.objn
        /\ containers = s.c
        /\ dependencies = s.deps
        /\ pending_images = s.pend
        /\ img_id \in Counters
        /\ flight = s.flight
        /\ dcount = s.dcount
        /\ modifier = s.modifier
        /\ fatal = s.fatal
        /\ returned = {}
        /\ issued = s.issued
        /\ loader = Outside
        /\ freeing = Outside
    /\ FrInit

\* the images retained for uploads in flight, late in the life of the process
SpecRetain == RetainInit /\ [][UploadNext]_vars

RaceNext ==
    \/ RetainRead
    \/ RetainInsertBegin
    \/ RetainInsertEnd
    \/ RetainIncrement
    \/ LoadUpload
    \/ FreeFind
    \/ FreeErase
    \/ DataRace

\* texture uploads and completion callbacks, statement by statement
SpecRace == Init /\ [][RaceNext]_vars

\* the manager a constructor leaves, whichever of the default files are there
\* and whatever a call through a null pointer does
DefaultsInit ==
    /\ \E files \in SUBSET DefaultFiles, crash \in BOOLEAN :
        \E s \in {LoadDefaults(Unconstructed, files, crash)} :
        /\ next = s.next
        /\ objn = s.objn
        /\ containers = s.c
        /\ dependencies = s.deps
        /\ pending_images = s.pend
        /\ img_id = s.img_id
        /\ flight = s.flight
        /\ dcount = s.dcount
        /\ modifier = s.modifier
        /\ fatal = s.fatal
        /\ returned = {}
        /\ issued = s.issued
        /\ loader = Outside
        /\ freeing = Outside
    /\ FrInit

DefaultsNext ==
    \/ CallGet
    \/ CallDestroy
    \/ CallDestroyAll

\* construction with default files missing, and the lookups and destructions
\* that follow it
SpecDefaults == DefaultsInit /\ [][DefaultsNext]_vars

FrameNext == FrNext

SwapNext ==
    \/ \E metal \in BOOLEAN : UpdateSwapChain(metal)
    \/ CreateScene
    \/ ConvertToGuiScene
    \/ CreateBufferRenderer
    \/ \E began \in BOOLEAN : BeginFrame(began)
    \/ EndFrame

\* the swap chain and what the renderer owns besides it
SpecSwap == Init /\ [][SwapNext]_vars

\* the frame coordinator
SpecFrame == Init /\ [][FrameNext]_vars

----------------------------------------------------------------------------
(* Properties of the resource manager *)

Present(s, h) == h.type \in Kinds /\ h \in DOMAIN s.c[h.type]

CallerHandles == UNION {HandlesOf(k) : k \in Kinds}

\* the state each create operation leaves, for every input it may be given
CreateResults ==
    {CreateMaterial(Cur, r) : r \in MaterialRequests}
    \cup {CreateMaterialInstance(Cur, h) : h \in HandlesOf("Material")}
    \cup {CreateFromDescriptor(Cur, d) : d \in Descriptors}
    \cup {AddTexture(Cur, r, img) :
             r \in {Request("", 0, "good"), Request("file", 0, "good")},
             img \in Images}
    \cup {CreateTexture(Cur, img) : img \in Images \cup {NullImage}}
    \cup {CreateTextureCopy(Cur, img) : img \in Images}
    \cup {CreateTextureFilled(Cur, Red, dimension) : dimension \in {1, 2}}
    \cup {CreateIndirectLight(Cur, r) : r \in KtxRequests}
    \cup {AddIndirectLight(Cur, r) : r \in KtxRequests}
    \cup {CreateSkybox(Cur, r) : r \in KtxRequests}
    \cup {AddSkybox(Cur, r) : r \in KtxRequests}
    \cup {AddVertexBuffer(Cur, isNull) : isNull \in BOOLEAN}
    \cup {CreateIndexBuffer(Cur, built) : built \in BOOLEAN}

\* C1: a valid handle that a create operation returns refers to a live
\* object when Get is called on it right after the creation; after Destroy(h)
\* on a handle h outside the protected set, Get(h) returns an empty reference
\* and writes the lookup warning.
C1_GetAfterCreateAndDestroy ==
    /\ \A s \in CreateResults :
          (~s.fatal /\ IsValid(s.ret)) => Get(s, s.ret).obj # Null
    /\ \A h \in CallerHandles \ kDefaultResources :
          LET got == Get(Destroy(Cur, h), h)
          IN got.obj = Null /\ "Resource not found." \in got.log

\* a handle that was created and is live, and one that was created and destroyed
C1_Witness ==
    /\ \E h \in returned : Present(Cur, h)
    /\ \E h \in returned \ DefaultHandles :
          /\ ~Present(Cur, h)
          /\ kDefaultLit \in DOMAIN containers["Material"]

RECURSIVE Cascade(_, _)
\* the handles a Destroy of the handles S reaches through the dependency records
Cascade(deps, S) ==
    LET more == UNION {deps[h] : h \in S \cap DOMAIN deps}
    IN IF more \subseteq S THEN S ELSE Cascade(deps, S \cup more)

C3_DefaultsSurviveDestroy ==
    [][\A h \in DefaultHandles :
          (Present(Cur, h) /\ containers' = Destroy(Cur, h).c)
              => h \in DOMAIN containers'[h.type]]_vars

\* the engine has destroyed object o as often as s says, and o is in no container
Destroyed(s, o, times) == s.dcount[o] = times /\ Owners(s, o) = {}

\* every engine object built is either held by a container and not
\* destroyed, or held by none and destroyed once
ExactlyOnce(s) ==
    \A o \in DOMAIN s.dcount :
        \/ s.dcount[o] = 0 /\ Owners(s, o) # {}
        \/ Destroyed(s, o, 1)

\* C4: after any sequence of creates, failed creates, Destroy and DestroyAll,
\* and after a ModifyMaterial on top of it, the engine has destroyed no
\* object twice and has destroyed every object that no container holds.
C4_EngineDestroyExactlyOnce ==
    /\ ExactlyOnce(Cur)
    /\ \A h \in HandlesOf("Material") : ExactlyOnce(ModifyMaterial(Cur, h))
    /\ \A h \in HandlesOf("MaterialInstance") :
          ExactlyOnce(ModifyMaterialInstance(Cur, h))

\* a failed create has destroyed the texture it built, a Destroy has destroyed
\* a registered object, and registered objects are still live
C4_Witness ==
    /\ \E o \in DOMAIN dcount : Destroyed(Cur, o, 1)
    /\ \E h \in returned \ DefaultHandles : Present(Cur, h)
    /\ objn["Texture"] > next["Texture"] - 1

C6_PendingIsInFlight ==
    ~fatal =>
        /\ DOMAIN pending_images = {Key(id) : id \in flight}
        /\ Cardinality(DOMAIN pending_images) = Cardinality(flight)
        /\ flight = {} => pending_images = EmptyMap

\* uploads were issued after construction, and every callback has fired
C6_Witness ==
    /\ img_id.lo > 4
    /\ flight = {}
    /\ pending_images = EmptyMap

\* C7: an image retained for an upload in flight stays in the registry,
\* unchanged, through every step but the one in which the completion
\* callback for its transfer id fires.
C7_RetainedUntilCallback ==
    [][\A id \in flight :
          \/ id \notin flight'
          \/ /\ Key(id) \in DOMAIN pending_images'
             /\ pending_images'[Key(id)] = pending_images[Key(id)]]_vars

\* a texture was destroyed while the image of its upload is still retained
C7_Witness ==
    \E h \in returned :
        /\ h.type = "Texture"
        /\ ~Present(Cur, h)
        /\ Cardinality(flight) = img_id.lo - 1
        /\ Cardinality(DOMAIN pending_images) = img_id.lo - 1

\* C13: every handle issued so far, the default handles and the destroyed
\* ones among them, is valid and was issued exactly once; every handle a
\* create operation returns is valid only if it was issued in that call and
\* never before.
C13_HandlesFresh ==
    /\ \A h \in DOMAIN issued : issued[h] = 1 /\ IsValid(h)
    /\ DefaultHandles \subseteq DOMAIN issued
    /\ returned \subseteq DOMAIN issued
    /\ \A s \in CreateResults :
          (~s.fatal /\ IsValid(s.ret)) =>
              /\ s.ret \notin DOMAIN issued
              /\ s.ret \in DOMAIN s.issued
              /\ \A h \in DOMAIN s.issued : s.issued[h] = 1

\* a handle was destroyed and a later create returned a handle of its kind
C13_Witness ==
    \E g, h \in returned :
        /\ g.type = h.type
        /\ g.id < h.id
        /\ ~Present(Cur, g)
        /\ Present(Cur, h)

\* the state each create operation that takes a ResourceLoadRequest leaves
RequestResults ==
    {CreateMaterial(Cur, r) : r \in MaterialRequests}
    \cup {AddTexture(Cur, r, img) :
             r \in {Request("", 0, "good"), Request("file", 0, "good")},
             img \in Images}
    \cup {CreateIndirectLight(Cur, r) : r \in KtxRequests}
    \cup {AddIndirectLight(Cur, r) : r \in KtxRequests}
    \cup {CreateSkybox(Cur, r) : r \in KtxRequests}
    \cup {AddSkybox(Cur, r) : r \in KtxRequests}

\* C14: a create operation that takes a request and does not end the process
\* either returns a valid handle or returns the invalid handle after having
\* invoked the request's error callback.
C14_ValidOrCallback ==
    \A s \in RequestResults :
        ~s.fatal =>
            \/ IsValid(s.ret) /\ s.cb = NoCallback
            \/ ~IsValid(s.ret) /\ s.cb # NoCallback

\* images that hold no pixel data, of supported and unsupported formats
EmptyImages == {Image(FALSE, ch, bpc) : ch \in {1, 3, 5}, bpc \in {1, 2}}

\* C15: CreateTexture on an image without pixel data, through the path, the
\* shared-image and the image-value overload, returns the invalid handle,
\* makes no engine call, and adds no texture and no pending upload.
C15_EmptyImageRejected ==
    \A img \in EmptyImages :
        \A s \in {CreateTexturePath(Cur, img), CreateTexture(Cur, img),
                  CreateTextureCopy(Cur, img)} :
            /\ s.fatal = fatal
            /\ s.ret = kBad("Texture")
            /\ s.objn = objn /\ s.flight = flight /\ s.dcount = dcount
            /\ s.c = containers
            /\ s.pend = pending_images /\ s.img_id = img_id
            /\ s.next = next

\* user textures exist and an upload is pending when the empty image arrives
C15_Witness ==
    /\ \E h \in returned \ DefaultHandles : h.type = "Texture" /\ Present(Cur, h)
    /\ pending_images # EmptyMap
    /\ Image(FALSE, 3, 1) \in EmptyImages \cap Images

\* requests that name no file and carry no inline data
EmptyRequests == {Request("", 0, p) : p \in {"good", "rejected", "nosh"}}

\* the state each operation leaves when its request is a user-input error
UserInputErrors ==
    {AddTexture(Cur, r, img) : r \in EmptyRequests, img \in Images}
    \cup {AddIndirectLight(Cur, r) : r \in EmptyRequests}
    \cup {AddSkybox(Cur, r) : r \in EmptyRequests}
    \cup {CreateMaterial(Cur, r) : r \in EmptyRequests}
    \cup {CreateIndirectLight(Cur, r) : r \in EmptyRequests}
    \cup {CreateSkybox(Cur, r) : r \in EmptyRequests}

\* what a failed call must leave alone: containers, dependency records,
\* pending uploads, and the engine objects behind them
NothingCreated(s) ==
    /\ s.c = containers
    /\ s.deps = dependencies
    /\ s.pend = pending_images
    /\ s.next = next
    /\ s.flight = flight
    /\ \A k \in Kinds : s.objn[k] = objn[k]

\* C16: an empty path given to AddTexture, AddIndirectLight or AddSkybox, and
\* a request with neither path nor inline data given to CreateMaterial,
\* CreateIndirectLight or CreateSkybox, invokes the error callback with code
\* -1, returns the invalid handle and changes no container, dependency record
\* or pending upload.
C16_UserInputError ==
    ~fatal =>
        \A s \in UserInputErrors :
            /\ ~s.fatal
            /\ s.cb = "-1"
            /\ ~IsValid(s.ret)
            /\ NothingCreated(s)
            /\ s.dcount = dcount

\* the manager holds user objects and dependency records when the call comes
C16_Witness ==
    /\ ~fatal
    /\ dependencies # EmptyMap
    /\ \E h \in returned \ DefaultHandles : Present(Cur, h)
    /\ \E s \in UserInputErrors : s.cb = "-1"

\* requests that name a file FReadToBuffer cannot read
UnreadableRequests ==
    {Request("missing", n, p) : n \in {0, 1}, p \in {"good", "rejected", "nosh"}}

\* the state each operation leaves when the file of its request is unreadable
IOErrors ==
    {CreateMaterial(Cur, r) : r \in UnreadableRequests}
    \cup {CreateIndirectLight(Cur, r) : r \in UnreadableRequests}
    \cup {AddIndirectLight(Cur, r) : r \in UnreadableRequests}
    \cup {CreateSkybox(Cur, r) : r \in UnreadableRequests}
    \cup {AddSkybox(Cur, r) : r \in UnreadableRequests}

\* C17: an unreadable file given to CreateMaterial, CreateIndirectLight or
\* CreateSkybox is reported through the error callback with the system error
\* code, the invalid handle is returned, and no container entry, dependency
\* record or pending upload is created.
C17_IOError ==
    ~fatal =>
        \A s \in IOErrors :
            /\ ~s.fatal
            /\ s.cb = Errno
            /\ ~IsValid(s.ret)
            /\ NothingCreated(s)
            /\ s.dcount = dcount

\* the manager holds a material, a light or a skybox of the caller's when the
\* unreadable file is asked for
C17_Witness ==
    /\ ~fatal
    /\ \E h \in returned \ DefaultHandles :
          /\ h.type \in {"Material", "IndirectLight", "Skybox"}
          /\ Present(Cur, h)
    /\ \E s \in IOErrors : s.cb = Errno

\* the state each operation leaves when the bundle it read cannot be decoded
DecodeErrors ==
    {<<"2", op>> : op \in {CreateIndirectLight(Cur, Request("file", 0, "nosh")),
                          AddIndirectLight(Cur, Request("file", 0, "nosh"))}}
    \cup {<<"3", op>> :
             op \in {CreateIndirectLight(Cur, Request("file", 0, "rejected")),
                    AddIndirectLight(Cur, Request("file", 0, "rejected")),
                    CreateSkybox(Cur, Request("file", 0, "rejected")),
                    AddSkybox(Cur, Request("file", 0, "rejected"))}}

\* the cubemap texture image::ktx::createTexture builds in the next call
Cubemap == Object("Texture", objn["Texture"] + 1)

\* C18: when the bundle has no spherical harmonics (code 2) or the builder of
\* the light or the skybox fails (code 3), the error callback is invoked with
\* that code, the invalid handle is returned, the cubemap texture already
\* created is destroyed exactly once and nothing is registered.
C18_DecodeError ==
    ~fatal =>
        \A e \in DecodeErrors :
            LET s == e[2]
            IN /\ ~s.fatal
               /\ s.cb = e[1]
               /\ ~IsValid(s.ret)
               /\ s.c = containers /\ s.deps = dependencies
               /\ s.pend = pending_images /\ s.next = next
               /\ s.issued = issued
               /\ DOMAIN s.dcount = DOMAIN dcount \cup {Cubemap}
               /\ s.dcount[Cubemap] = 1
               /\ \A o \in DOMAIN dcount : s.dcount[o] = dcount[o]

\* a decode failure has happened: a texture was built and destroyed that no
\* handle was ever issued for
C18_Witness ==
    /\ ~fatal
    /\ \E o \in DOMAIN dcount :
          /\ o.kind = "Texture"
          /\ dcount[o] = 1
          /\ \A k \in Kinds : \A h \in DOMAIN containers[k] :
                containers[k][h] # o
    /\ Cardinality({h \in DOMAIN issued : h.type = "Texture"})
          < objn["Texture"]

\* the state each operation leaves when the bundle decodes and the builder
\* succeeds
KtxSuccesses ==
    {CreateIndirectLight(Cur, Request("file", 0, "good")),
     AddIndirectLight(Cur, Request("file", 0, "good"))}
    \cup {op : op \in {CreateSkybox(Cur, Request("file", 0, p)) :
                            p \in {"good", "nosh"}}}
    \cup {op : op \in {AddSkybox(Cur, Request("file", 0, p)) :
                            p \in {"good", "nosh"}}}

\* C19: a successful CreateIndirectLight or CreateSkybox returns a valid
\* handle h, registers the cubemap texture in the texture container under a
\* new handle and records that handle as the dependency of h; Destroy(h) then
\* removes h, the texture and the record, and the engine destroys both objects.
C19_CubemapIsDependency ==
    /\ ~fatal =>
        \A s \in KtxSuccesses :
            LET h == s.ret
                d == Destroy(s, h)
            IN /\ ~s.fatal /\ s.cb = NoCallback
               /\ IsValid(h) /\ h.type \in {"IndirectLight", "Skybox"}
               /\ Present(s, h) /\ ~Present(Cur, h)
               /\ h \in DOMAIN s.deps
               /\ \E tex \in DOMAIN s.c["Texture"] \ DOMAIN containers["Texture"] :
                     /\ s.c["Texture"][tex] = Cubemap
                     /\ s.deps[h] = {tex}
                     /\ ~Present(d, tex)
               /\ ~Present(d, h)
               /\ h \notin DOMAIN d.deps
               /\ d.dcount[Cubemap] = 1
               /\ d.dcount[s.c[h.type][h]] = 1
               /\ \A k \in Kinds : DOMAIN d.c[k] = DOMAIN containers[k]
    /\ \A h \in returned :
          (~fatal /\ h.type \in {"IndirectLight", "Skybox"} /\ Present(Cur, h)) =>
              /\ h \in DOMAIN dependencies
              /\ \A tex \in dependencies[h] :
                    /\ Present(Cur, tex)
                    /\ ~Present(Destroy(Cur, h), tex)
              /\ ~Present(Destroy(Cur, h), h)

\* a light or skybox was created and destroyed: its handle was returned, its
\* record is gone, and the cubemap is in no container and was destroyed once
C19_Witness ==
    /\ ~fatal
    /\ \E h \in returned :
          /\ h.type \in {"IndirectLight", "Skybox"}
          /\ ~Present(Cur, h)
          /\ h \notin DOMAIN dependencies
    /\ DOMAIN containers["Texture"] \subseteq DefaultHandles
    /\ \E o \in DOMAIN dcount : o.kind = "Texture" /\ dcount[o] = 1

\* descriptors that carry no map, or one map, in any of the descriptor's slots
FullDescriptors ==
    {[m \in DescriptorMaps |-> NoMap]}
    \cup {[m \in DescriptorMaps |-> IF m = k THEN img ELSE NoMap] :
             k \in DescriptorMaps, img \in MapImages}

\* the dependency record of h, empty when there is none
DepsOf(s, h) == IF h \in DOMAIN s.deps THEN s.deps[h] ELSE {}

\* C20: CreateFromDescriptor(d) returns a new material instance handle h
\* whose dependency record holds exactly one newly created texture for each
\* image map of d that is present and has pixel data, and nothing for the
\* absent or empty maps; Destroy(h) then removes h and all those textures.
C20_DependenciesPerMap ==
    ~fatal =>
        \A d \in FullDescriptors :
            LET s == CreateFromDescriptor(Cur, d)
                h == s.ret
                filled == {m \in DescriptorMaps : d[m] # NoMap /\ HasData(d[m])}
                gone == Destroy(s, h)
            IN ~s.fatal =>
                  /\ IsValid(h) /\ h.type = "MaterialInstance"
                  /\ Present(s, h) /\ ~Present(Cur, h)
                  /\ Cardinality(DepsOf(s, h)) = Cardinality(filled)
                  /\ \A tex \in DepsOf(s, h) :
                        /\ tex.type = "Texture"
                        /\ Present(s, tex) /\ ~Present(Cur, tex)
                        /\ ~Present(gone, tex)
                  /\ ~Present(gone, h)

\* material handles that name no entry of materials_: the invalid handle,
\* handles of destroyed materials, and the handle Next() would issue next
UnknownMaterials ==
    (HandlesOf("Material") \cup {Handle("Material", next["Material"])})
        \ DOMAIN containers["Material"]

\* C21: CreateMaterialInstance with a material handle that is not in
\* materials_ returns the invalid handle and leaves materials_ and
\* material_instances_ unchanged.
C21_UnknownMaterialNoInstance ==
    ~fatal =>
        \A m \in UnknownMaterials :
            LET s == CreateMaterialInstance(Cur, m)
            IN /\ ~s.fatal
               /\ s.ret = kBad("MaterialInstance")
               /\ s.c["Material"] = containers["Material"]
               /\ s.c["MaterialInstance"] = containers["MaterialInstance"]
               /\ s.objn = objn

\* a material the caller created has been destroyed, and instances of the
\* caller's are registered, when the call comes
C21_Witness ==
    /\ ~fatal
    /\ \E m \in returned :
          m.type = "Material" /\ m \in UnknownMaterials
    /\ \E i \in returned \ DefaultHandles :
          i.type = "MaterialInstance" /\ Present(Cur, i)

\* non-default handles that name no entry of their container: handles of
\* destroyed resources and, for each kind, the handle Next() would issue next
AbsentHandles ==
    {h \in CallerHandles \cup {Handle(k, next[k]) : k \in Kinds} :
        IsValid(h) /\ h \notin DefaultHandles /\ ~Present(Cur, h)}

----------------------------------------------------------------------------
(* Properties of the frame coordinator *)

\* C8: after a BeginFrame in which the engine refused to begin the frame, a
\* Draw calls no scene's draw entry point, the overlay's included, and an
\* EndFrame submits nothing.
C8_RefusedFrameDrawsNothing ==
    (frame.begin = "refused" /\ frame.op \in {"Draw", "EndFrame"})
        => frame.calls = <<>>

\* a Draw after a refused begin, with a regular scene and an overlay to draw
C8_Witness ==
    /\ frame.begin = "refused"
    /\ frame.op = "Draw"
    /\ scenes_ # {}
    /\ gui_scene_ # NoScene

\* C9: in every BeginFrame each registered buffer renderer whose pending_ is
\* set at entry is rendered before the engine's beginFrame is called, which is
\* the last call of BeginFrame and decides frame_started_; two pending buffer
\* renderers are both rendered.
C9_BuffersBeforeBeginFrame ==
    [][frame'.op = "BeginFrame" =>
          LET calls == frame'.calls
              n == Len(calls)
              due == {b \in buffer_renderers_ : brPending[b]}
          IN /\ n = Cardinality(due) + 1
             /\ calls[n].call = "beginFrame"
             /\ calls[n].on = frame_started_'
             /\ \A i \in 1 .. n - 1 : calls[i].call = "Render"
             /\ {calls[i].on : i \in 1 .. n - 1} = due]_vars

\* a BeginFrame that found two buffer renderers pending
C9_Witness ==
    /\ frame.op = "BeginFrame"
    /\ Len(frame.calls) = 3
    /\ frame.calls[1].call = "Render"
    /\ frame.calls[2].call = "Render"
    /\ frame.calls[1].on # frame.calls[2].on

\* C10: when the frame has begun, Draw calls the draw entry point of every
\* scene of scenes_ exactly once and after them the overlay's, which is the
\* last draw of the call whenever there is an overlay.
C10_ScenesThenOverlay ==
    (frame.op = "Draw" /\ frame_started_) =>
        LET calls == frame.calls
            n == Cardinality(scenes_)
        IN /\ Len(calls) = n + (IF gui_scene_ # NoScene THEN 1 ELSE 0)
           /\ \A i \in 1 .. Len(calls) : calls[i].call = "Draw"
           /\ {calls[i].on : i \in 1 .. n} = scenes_
           /\ gui_scene_ # NoScene => calls[Len(calls)].on = gui_scene_

\* a Draw of two regular scenes and the overlay in a frame that began
C10_Witness ==
    /\ frame.op = "Draw"
    /\ frame_started_
    /\ Cardinality(scenes_) = 2
    /\ gui_scene_ # NoScene
    /\ Len(frame.calls) = 3

\* C11: a ConvertToGuiScene with a handle that is not in scenes_ leaves
\* gui_scene_ and scenes_ as they were.
C11_UnknownSceneNotConverted ==
    [][(frame'.op = "ConvertToGuiScene" /\ frame'.arg \notin scenes_)
          => (gui_scene_' = gui_scene_ /\ scenes_' = scenes_)]_vars

\* a ConvertToGuiScene with an unknown handle while an overlay and a regular
\* scene exist
C11_Witness ==
    /\ frame.op = "ConvertToGuiScene"
    /\ frame.arg \notin scenes_ \cup {gui_scene_}
    /\ gui_scene_ # NoScene
    /\ scenes_ # {}

\* C12: a ConvertToGuiScene with a handle h of scenes_ makes that scene the
\* overlay and takes h out of scenes_, so that GetScene(h) returns null; the
\* overlay is never in scenes_ and no Draw draws a scene twice.
C12_OverlayLeavesRegistry ==
    /\ [][(frame'.op = "ConvertToGuiScene" /\ frame'.arg \in scenes_)
            => /\ gui_scene_' = frame'.arg
               /\ scenes_' = scenes_ \ {frame'.arg}
               /\ GetScene(scenes_', frame'.arg) = NoScene]_vars
    /\ [](/\ gui_scene_ # NoScene => gui_scene_ \notin scenes_
          /\ frame.op = "Draw" =>
                \A i, j \in DOMAIN frame.calls :
                    frame.calls[i].on = frame.calls[j].on => i = j)

\* a scene has just become the overlay while another stays in scenes_
C12_Witness ==
    /\ frame.op = "ConvertToGuiScene"
    /\ gui_scene_ = frame.arg
    /\ gui_scene_ # NoScene
    /\ scenes_ # {}

\* C23: EndFrame returns the coordinator to Idle (no frame begun), so a Draw
\* or an EndFrame that follows an EndFrame with no BeginFrame in between draws
\* nothing and submits nothing, and no frame is submitted twice.
C23_EndFrameReturnsToIdle ==
    /\ [][frame'.op = "EndFrame" => ~frame_started_']_vars
    /\ [][(frame.op = "EndFrame" /\ frame'.op \in {"Draw", "EndFrame"})
            => frame'.calls = <<>>]_vars

\* the keys pending_images must hold: those of the uploads in flight, of the
\* image just retained for an upload about to be issued, and of the upload
\* whose callback has not erased its entry yet
ExpectedKeys ==
    {Key(id) : id \in flight}
    \cup (IF loader.pc \in {"increment", "upload"} THEN {Key(loader.id)} ELSE {})
    \cup (IF freeing.pc = "erasing" THEN {Key(freeing.id)} ELSE {})

\* C24: however the completion callback interleaves with the statements of a
\* texture upload, the process goes on and pending_images holds exactly the
\* entries of the uploads issued and not completed: none lost, none released
\* for another id.
C24_CallbackInterleaves ==
    /\ ~fatal
    /\ DOMAIN pending_images = ExpectedKeys

\* C25: the key under which RetainImageForLoading stores an image, the
\* transfer id cut to 32 bits, is no key of pending_images and differs from the
\* key of every upload in flight: the entries already pending stay as they are.
C25_FreshTransferKey ==
    ~fatal =>
        \A img \in LoadableImages :
            LET s == RetainImageForLoading(Cur, img)
            IN /\ s.tid = img_id
               /\ Key(s.tid) \notin DOMAIN pending_images
               /\ \A id \in flight : Key(id) # Key(s.tid)
               /\ \A k \in DOMAIN pending_images : s.pend[k] = pending_images[k]
               /\ s.pend[Key(s.tid)] = img

\* transfer ids whose key pending_images does not hold: ids of uploads already
\* completed, ids not issued yet, and 0
UnknownIds ==
    {id \in {TransferId(0, n) : n \in 0 .. img_id.lo + 1}
               \cup {TransferId(Half, 1)} :
        Key(id) \notin DOMAIN pending_images}

\* C26: a completion callback with a transfer id that pending_images does not
\* hold leaves pending_images as it is and does not end the process.
C26_UnknownIdIgnored ==
    ~fatal =>
        \A id \in UnknownIds :
            LET s == FreeRetainedImage(Cur, id)
            IN /\ ~s.fatal
               /\ s.pend = pending_images
               /\ s.c = containers
               /\ "Trying to release non existent image shared pointer" \in s.log

\* an upload has been completed, so that a second callback for its id is an
\* unknown id, while other uploads are pending
C26_Witness ==
    /\ ~fatal
    /\ pending_images # EmptyMap
    /\ \E n \in 1 .. img_id.lo - 1 :
          /\ TransferId(0, n) \notin flight
          /\ TransferId(0, n) \in UnknownIds

\* C27: when an instance has been created from a material, by
\* CreateMaterialInstance or by ModifyMaterial, a Destroy never leaves the
\* instance in material_instances_ with its material gone from materials_.
C27_MaterialOutlivesInstance ==
    ~fatal =>
        \A m \in HandlesOf("Material") \cap DOMAIN containers["Material"] :
            \A made \in {CreateMaterialInstance(Cur, m), ModifyMaterial(Cur, m)} :
                LET gone == Destroy(made, m)
                IN (~made.fatal /\ IsValid(made.ret)) =>
                      (Present(gone, made.ret) => Present(gone, m))

\* the engine objects the containers hold
Held(s) == UNION {{s.c[k][h] : h \in DOMAIN s.c[k]} : k \in Kinds}

\* C28: DestroyAll empties every container, the default resources included:
\* afterwards Get finds nothing under any handle, every engine object that
\* was registered has been destroyed by the engine, and none twice.
C28_DestroyAllClears ==
    ~fatal =>
        LET s == DestroyAll(Cur)
        IN /\ ~s.fatal
           /\ \A k \in Kinds : s.c[k] = EmptyMap
           /\ \A h \in CallerHandles \cup DefaultHandles :
                 LET got == Get(s, h)
                 IN got.obj = Null /\ "Resource not found." \in got.log
           /\ \A o \in Held(Cur) : o # Null => s.dcount[o] = 1
           /\ \A o \in DOMAIN s.dcount :
                 s.dcount[o] <= 1 /\ (dcount[o] = 1 => s.dcount[o] = 1)

\* DestroyAll has run on a manager that held resources of the caller's: the
\* containers are empty and the objects built were each destroyed once
C28_Witness ==
    /\ ~fatal
    /\ returned # {}
    /\ \A k \in Kinds : containers[k] = EmptyMap
    /\ Built(Cur) > DefaultObjects
    /\ \A o \in DOMAIN dcount : dcount[o] = 1

\* C29: after ModifyMaterial(instance handle) the one material modifier is
\* bound to the handle's instance when the material-instance container has
\* it and is unbound when it has not, whatever it was bound to before; the
\* containers are as they were.
C29_ModifierBoundToNamedInstance ==
    ~fatal =>
        \A h \in HandlesOf("MaterialInstance") :
            LET s == ModifyMaterialInstance(Cur, h)
            IN /\ ~s.fatal
               /\ s.c = containers
               /\ Present(Cur, h) => s.modifier = h /\ s.ret = h
               /\ ~Present(Cur, h) =>
                     /\ s.modifier = kBad("MaterialInstance")
                     /\ "Failed to modify material instance: unknown instance handle" \in s.log

\* the modifier is bound to an instance by an earlier ModifyMaterial, and the
\* caller holds the handle of another instance that has been destroyed, when
\* the call comes
C29_Witness ==
    /\ ~fatal
    /\ IsValid(modifier)
    /\ Present(Cur, modifier)
    /\ \E h \in returned :
          h.type = "MaterialInstance" /\ h # modifier /\ ~Present(Cur, h)

\* C30: buffer_renderers_ is at every moment the set of the buffer renderers
\* CreateBufferRenderer returned whose destructor has not notified the
\* renderer yet: CreateBufferRenderer adds the new one, the notification takes
\* its renderer out, nothing else changes the set; and every buffer renderer
\* a BeginFrame renders is one of them.
C30_BufferRenderersAreLive ==
    /\ [](buffer_renderers_ = DOMAIN brPending)
    /\ [][/\ frame'.op = "CreateBufferRenderer" =>
                /\ frame'.arg \notin buffer_renderers_
                /\ buffer_renderers_' = buffer_renderers_ \cup {frame'.arg}
          /\ frame'.op = "OnBufferRenderDestroyed" =>
                buffer_renderers_' = buffer_renderers_ \ {frame'.arg}
          /\ frame'.op \notin {"CreateBufferRenderer", "OnBufferRenderDestroyed"} =>
                buffer_renderers_' = buffer_renderers_
          /\ frame'.op = "BeginFrame" =>
                \A i \in DOMAIN frame'.calls :
                    frame'.calls[i].call = "Render" =>
                        frame'.calls[i].on \in DOMAIN brPending]_vars

\* a BeginFrame rendered a buffer renderer after another one, created
\* earlier, had been destroyed
C30_Witness ==
    /\ frame.op = "BeginFrame"
    /\ \E i \in DOMAIN frame.calls :
          /\ frame.calls[i].call = "Render"
          /\ \E b \in 1 .. frame.calls[i].on - 1 : b \notin buffer_renderers_

\* the scenes the renderer owns: those of scenes_ and the overlay
OwnedScenes == scenes_ \cup ({gui_scene_} \ {NoScene})

\* C31: a ConvertToGuiScene(h) with h in scenes_ while there is an overlay makes
\* h the overlay and drops the old overlay, which is then neither the overlay
\* nor in scenes_; a scene the renderer has dropped never comes back (scenes
\* only enter under handles never issued before) and a Draw draws owned
\* scenes only, so the old overlay is not drawn again.
C31_OverlayReplaced ==
    /\ [](OwnedScenes \subseteq 1 .. sceneNext - 1)
    /\ [](frame.op = "Draw" =>
             \A i \in DOMAIN frame.calls : frame.calls[i].on \in OwnedScenes)
    /\ [][/\ (/\ frame'.op = "ConvertToGuiScene"
              /\ frame'.arg \in scenes_
              /\ gui_scene_ # NoScene)
                => /\ gui_scene_' = frame'.arg
                   /\ gui_scene_ \notin OwnedScenes'
                   /\ scenes_' = scenes_ \ {frame'.arg}
          /\ \A id \in 1 .. sceneNext - 1 :
                id \notin OwnedScenes => id \notin OwnedScenes']_vars

\* a scene has just replaced an overlay: it is the overlay, a scene created
\* before it is gone and another one is in scenes_
C31_Witness ==
    /\ frame.op = "ConvertToGuiScene"
    /\ gui_scene_ = frame.arg
    /\ gui_scene_ # NoScene
    /\ scenes_ # {}
    /\ \E id \in 1 .. gui_scene_ - 1 : id \notin OwnedScenes

\* the scene handles a caller may pass: the invalid one, those CreateScene
\* has returned and the one it would return next
SceneHandles == 0 .. sceneNext

\* C32: GetScene(h) finds a scene exactly for the handles CreateScene has
\* returned that were neither destroyed nor converted since: a handle enters
\* the registry when CreateScene returns it, leaves it by DestroyScene(h) and
\* by ConvertToGuiScene(h), and nothing else changes the registry; a
\* DestroyScene with any other handle leaves scenes_ and gui_scene_ as they are.
C32_SceneRegistry ==
    /\ [](\A h \in SceneHandles :
             /\ GetScene(scenes_, h) \in {h, NoScene}
             /\ GetScene(scenes_, h) # NoScene =>
                   h \in 1 .. sceneNext - 1 /\ h # gui_scene_)
    /\ [][/\ frame'.op = "CreateScene" =>
                /\ GetScene(scenes_, frame'.arg) = NoScene
                /\ frame'.arg = sceneNext
                /\ sceneNext' > sceneNext
                /\ GetScene(scenes_', frame'.arg) = frame'.arg
          /\ (frame'.op \in {"DestroyScene", "ConvertToGuiScene"}
                /\ frame'.arg \in scenes_) =>
                GetScene(scenes_', frame'.arg) = NoScene
          /\ (frame'.op = "DestroyScene" /\ frame'.arg \notin scenes_) =>
                scenes_' = scenes_ /\ gui_scene_' = gui_scene_
          /\ frame'.op = "DestroyScene" => gui_scene_' = gui_scene_
          /\ \A h \in SceneHandles : h # frame'.arg =>
                GetScene(scenes_', h) = GetScene(scenes_, h)
          /\ frame'.op \notin {"CreateScene", "DestroyScene", "ConvertToGuiScene"} =>
                scenes_' = scenes_]_vars

\* a DestroyScene was given the handle of the scene that is the overlay,
\* while other scenes are registered
C32_Witness ==
    /\ frame.op = "DestroyScene"
    /\ frame.arg = gui_scene_
    /\ gui_scene_ # NoScene
    /\ scenes_ # {}

\* C33: the constructor, every default file being there, leaves a manager
\* that has not failed, and while the manager is as the constructor left it
\* each of the ten default handles resolves through Get to an object of its
\* kind that the container of the kind holds and the engine has not destroyed.
C33_DefaultsResolve ==
    /\ ~Constructed.fatal
    /\ (containers = Constructed.c /\ dcount = Constructed.dcount) =>
          \A h \in DefaultHandles :
              LET got == Get(Cur, h)
              IN /\ got.obj # Null
                 /\ got.obj.kind = h.type
                 /\ h \in DOMAIN containers[h.type]
                 /\ dcount[got.obj] = 0
                 /\ got.log = {}

\* the manager right after its construction
C33_Witness ==
    /\ ~fatal
    /\ returned = {}
    /\ containers = Constructed.c
    /\ dcount = Constructed.dcount
    /\ \A h \in DefaultHandles : Present(Cur, h)

\* every entry of every container has a valid handle of the container's
\* kind as its key and an engine object as its value
WellKeyed(c) ==
    \A k \in Kinds :
        \A h \in DOMAIN c[k] : IsValid(h) /\ h.type = k /\ c[k][h] # Null

\* no engine object has been destroyed: nothing was taken out of the manager
\* since its construction
NothingDestroyed == \A o \in DOMAIN dcount : dcount[o] = 0

\* C34: whichever default files are missing, no container ever holds an entry
\* under the invalid handle or an entry without a resource, and a manager
\* whose construction did not end in a fatal condition has all ten default
\* resources (for as long as nothing has been destroyed).
C34_FailedDefaultsAreFatal ==
    /\ WellKeyed(containers)
    /\ (~fatal /\ NothingDestroyed) =>
          \A h \in DefaultHandles : Present(Cur, h)

\* the swap chains the engine has created and not destroyed
LiveSwapChains(chains) == {c \in DOMAIN chains : chains[c].destroyed = 0}

\* C35: an UpdateSwapChain has the engine destroy the current swap chain once
\* and create a new one on the same native window, which becomes the current
\* one and is the only live swap chain when the call is over; scenes_,
\* gui_scene_ and buffer_renderers_ are as they were.
C35_SwapChainRecreated ==
    [][frame'.op = "UpdateSwapChain" =>
          /\ swapchains'[swap_chain_].destroyed = 1
          /\ swap_chain_' \notin DOMAIN swapchains
          /\ swapchains'[swap_chain_'].window = swapchains[swap_chain_].window
          /\ LiveSwapChains(swapchains') = {swap_chain_'}
          /\ scenes_' = scenes_
          /\ gui_scene_' = gui_scene_
          /\ buffer_renderers_' = buffer_renderers_]_vars

\* images with pixels: one, three and four channels, one and two bytes each
FormatImages == {Image(TRUE, ch, bpc) : ch \in {1, 3, 4}, bpc \in {1, 2}}

\* C36: CreateTexture on an image of 1, 3 or 4 channels of one byte selects
\* the formats R, RGB and RGBA and registers the texture; on an image of
\* another channel depth it ends in a fatal error with textures_ as it was
\* and with no entry left in pending_images for the upload that never was.
C36_FormatsAndFatalDepth ==
    ~fatal =>
        \A img \in FormatImages :
            LET s == CreateTexture(Cur, img)
                settings == TextureSettings(img)
            IN /\ img.bpc = 1 =>
                     /\ settings.image_format =
                            (CASE img.ch = 1 -> "R" [] img.ch = 3 -> "RGB"
                               [] img.ch = 4 -> "RGBA")
                     /\ settings.image_type = "UBYTE"
                     /\ Built(s) <= DefaultObjects + MaxNew =>
                            ~s.fatal /\ IsValid(s.ret) /\ Present(s, s.ret)
               /\ img.bpc # 1 =>
                     /\ s.fatal
                     /\ ~IsValid(s.ret)
                     /\ s.c = containers
                     /\ s.flight = flight
                     /\ DOMAIN s.pend = DOMAIN pending_images

\* C37: the image CreateTextureFilled(color, d) uploads is d by d, of three
\* channels of one byte, and each of its d * d texels is the triple of the
\* colour's components times 255 (the fraction cut off); for d = 1 and the
\* colour (1, 0, 0) the bytes are 255, 0, 0.  The image is retained and
\* uploaded, and the texture registered.
C37_FilledTexels ==
    /\ FilledImage(Red, 1).data = <<255, 0, 0>>
    /\ \A color \in FillColors, d \in 0 .. MaxDimension :
          LET image == FilledImage(color, d)
              triple == [j \in 1 .. 3 |-> (color[j] * 255) \div ColorDen]
          IN /\ image.width = d /\ image.height = d
             /\ image.ch = 3 /\ image.bpc = 1
             /\ Len(image.data) = 3 * d * d
             /\ \A i \in 0 .. d * d - 1 :
                   \A j \in 1 .. 3 : image.data[3 * i + j] = triple[j]
             /\ (~fatal /\ d > 0 /\ Built(Cur) < DefaultObjects + MaxNew) =>
                   LET s == CreateTextureFilled(Cur, color, d)
                   IN /\ ~s.fatal
                      /\ IsValid(s.ret) /\ Present(s, s.ret)
                      /\ s.tid \in s.flight \ flight
                      /\ s.pend[Key(s.tid)] = Header(image)

\* a filled texture has been created and its upload is in flight
C37_Witness ==
    /\ ~fatal
    /\ \E h \in returned : h.type = "Texture" /\ Present(Cur, h)
    /\ \E id \in flight :
          /\ Key(id) \in DOMAIN pending_images
          /\ pending_images[Key(id)] = Header(FilledImage(Red, 1))
          /\ id.lo >= Constructed.img_id.lo

\* C38: every handle that owns a record of dependencies_ is in the container
\* of its kind.
C38_RecordOwnersPresent ==
    \A h \in DOMAIN dependencies : Present(Cur, h)

\* C39: every entry of every container has a valid handle of the container's
\* kind as its key and holds an engine object, and a Get, whatever handle it
\* is given, inserts nothing.
C39_EntriesValidAndLive ==
    /\ WellKeyed(containers)
    /\ ~fatal => \A h \in AllHandles :
                    h.type \in Kinds => Get(Cur, h).c = containers

====
